---- MODULE Spec2Model ----
(***************************************************************************)
(* A model of prometheus-rs: the atomic numeric cells (atomics.rs), the    *)
(* counters and gauges built on them (counter.rs, gauge.rs) and the        *)
(* histogram core (histogram.rs).                                          *)
(*                                                                         *)
(* Every atomic cell is one 64-bit word, as in the source (AtomicU64,      *)
(* AtomicI64, and AtomicF64 which wraps an AtomicU64 holding the f64's bit *)
(* pattern).  A word is a tuple of four 16-bit limbs, least significant    *)
(* first, so that 64-bit wrapping and IEEE-754 bit patterns are exact.     *)
(***************************************************************************)
EXTENDS Integers, Sequences, FiniteSets, TLC

(***************************************************************************)
(* 64-bit words                                                            *)
(***************************************************************************)
Limb == 65536

HalfLimb == 32768

ZeroWord == <<0, 0, 0, 0>>

\* The word holding the small integer n modulo 2^64 (two's complement for n < 0).
EncInt(n) ==
    IF n >= 0 THEN <<n, 0, 0, 0>>
    ELSE <<Limb + n, Limb - 1, Limb - 1, Limb - 1>>

\* u64::MAX, 0xFFFF_FFFF_FFFF_FFFF
U64Max == <<Limb - 1, Limb - 1, Limb - 1, Limb - 1>>

\* i64::MAX, 0x7FFF_FFFF_FFFF_FFFF
I64Max == <<Limb - 1, Limb - 1, Limb - 1, HalfLimb - 1>>

\* Wrapping 64-bit addition (ripple carry over the limbs; the last carry is dropped).
AddU64(x, y) ==
    LET s1 == x[1] + y[1]
        s2 == x[2] + y[2] + (s1 \div Limb)
        s3 == x[3] + y[3] + (s2 \div Limb)
        s4 == x[4] + y[4] + (s3 \div Limb)
    IN  <<s1 % Limb, s2 % Limb, s3 % Limb, s4 % Limb>>

\* The carry out of the 64-bit addition x + y: the unsigned sum does not fit.
CarryU64(x, y) ==
    LET s1 == x[1] + y[1]
        s2 == x[2] + y[2] + (s1 \div Limb)
        s3 == x[3] + y[3] + (s2 \div Limb)
        s4 == x[4] + y[4] + (s3 \div Limb)
    IN  s4 >= Limb

\* Two's complement negation: ~y + 1.
NegU64(y) ==
    AddU64(<<Limb - 1 - y[1], Limb - 1 - y[2], Limb - 1 - y[3], Limb - 1 - y[4]>>,
           <<1, 0, 0, 0>>)

\* Wrapping 64-bit subtraction.
SubU64(x, y) == AddU64(x, NegU64(y))

\* Unsigned order on words.
LtU64(x, y) ==
    \/ x[4] < y[4]
    \/ x[4] = y[4] /\ x[3] < y[3]
    \/ x[4] = y[4] /\ x[3] = y[3] /\ x[2] < y[2]
    \/ x[4] = y[4] /\ x[3] = y[3] /\ x[2] = y[2] /\ x[1] < y[1]

\* i64::is_negative: the sign bit of the word.
IsNegI64(x) == x[4] >= HalfLimb

\* Signed (two's complement) order on words.
LtI64(x, y) ==
    IF IsNegI64(x) # IsNegI64(y) THEN IsNegI64(x) ELSE LtU64(x, y)

\* Signed overflow of x + y: both operands have one sign and the sum the other.
OverflowI64(x, y) ==
    /\ IsNegI64(x) = IsNegI64(y)
    /\ IsNegI64(AddU64(x, y)) # IsNegI64(x)

(***************************************************************************)
(* f64 values.  A float is [s, c, m]: sign bit s, class c ("fin", "inf",   *)
(* "nan") and, for a finite value, its magnitude m counted in halves       *)
(* (m = 3 is 1.5).  The finite values of the model are the multiples of    *)
(* 0.5 below 2^20, on which f64 addition is exact.                         *)
(***************************************************************************)
Fin(h) == [s |-> IF h < 0 THEN 1 ELSE 0, c |-> "fin", m |-> IF h < 0 THEN -h ELSE h]

NegZero == [s |-> 1, c |-> "fin", m |-> 0]

PosInf == [s |-> 0, c |-> "inf", m |-> 0]

NegInf == [s |-> 1, c |-> "inf", m |-> 0]

NaN == [s |-> 0, c |-> "nan", m |-> 0]

\* The signed number of halves of a finite float.
Halves(f) == IF f.s = 1 THEN -f.m ELSE f.m

RECURSIVE Pow2(_)
Pow2(n) == IF n = 0 THEN 1 ELSE 2 * Pow2(n - 1)

RECURSIVE Log2(_)
\* floor(log2 m) for m >= 1
Log2(m) == IF m < 2 THEN 0 ELSE 1 + Log2(m \div 2)

FracBits == 20

ExpBias == 1023

ExpMax == 2047

\* f64::to_bits: sign (1 bit), biased exponent (11 bits), fraction (52 bits, of
\* which the values of the model use only the top FracBits).
F64ToBits(f) ==
    LET sgn == f.s * HalfLimb
    IN  CASE f.c = "inf" -> <<0, 0, 0, sgn + ExpMax * 16>>
          [] f.c = "nan" -> <<0, 0, 0, sgn + ExpMax * 16 + 8>>
          [] f.m = 0     -> <<0, 0, 0, sgn>>
          [] OTHER ->
               LET p == Log2(f.m)
                   e == ExpBias + p - 1
                   t == (f.m - Pow2(p)) * Pow2(FracBits - p)
               IN  <<0, 0, t % Limb, sgn + e * 16 + (t \div Limb)>>

\* f64::from_bits
F64FromBits(w) ==
    LET sg == w[4] \div HalfLimb
        e  == (w[4] % HalfLimb) \div 16
        t  == (w[4] % 16) * Limb + w[3]
        lo == w[1] + w[2]
    IN  CASE e = ExpMax /\ t = 0 /\ lo = 0 -> [s |-> sg, c |-> "inf", m |-> 0]
          [] e = ExpMax -> [s |-> sg, c |-> "nan", m |-> 0]
          [] e = 0 -> [s |-> sg, c |-> "fin", m |-> 0]
          [] OTHER ->
               LET p == e - ExpBias + 1
               IN  [s |-> sg, c |-> "fin", m |-> Pow2(p) + (t \div Pow2(FracBits - p))]

\* f64 addition (IEEE-754, round to nearest; exact on the model's finite values).
FAdd(a, b) ==
    CASE a.c = "nan" -> a
      [] b.c = "nan" -> b
      [] a.c = "inf" /\ b.c = "inf" -> IF a.s = b.s THEN a ELSE NaN
      [] a.c = "inf" -> a
      [] b.c = "inf" -> b
      [] OTHER ->
           LET v == Halves(a) + Halves(b)
           IN  IF v = 0
               THEN [s |-> IF a.s = 1 /\ b.s = 1 THEN 1 ELSE 0, c |-> "fin", m |-> 0]
               ELSE Fin(v)

FNeg(a) == [a EXCEPT !.s = 1 - a.s]

\* f64 subtraction
FSub(a, b) == IF b.c = "nan" THEN b ELSE FAdd(a, FNeg(b))

\* The f64 order a < b (false when either is NaN; -0.0 and 0.0 are equal).
FLt(a, b) ==
    /\ a.c # "nan"
    /\ b.c # "nan"
    /\ CASE a.c = "inf" /\ b.c = "inf" -> a.s = 1 /\ b.s = 0
         [] a.c = "inf" -> a.s = 1
         [] b.c = "inf" -> b.s = 0
         [] OTHER -> Halves(a) < Halves(b)

\* The f64 order a <= b (false when either is NaN).
FLe(a, b) ==
    /\ a.c # "nan"
    /\ b.c # "nan"
    /\ ~FLt(b, a)

\* f64::is_sign_positive: the sign bit is clear (true of +0.0, false of -0.0).
IsSignPositive(f) == F64ToBits(f)[4] < HalfLimb

(***************************************************************************)
(* The atomic cell operations of AtomicF64 and of the native integer       *)
(* atomics, and the AtomicNum interface over them.  A value of the numeric *)
(* type (Num) is a word for u64 and i64 and a float for f64.               *)
(***************************************************************************)
Kinds == {"uint", "int", "float"}

\* AtomicU64::load / AtomicI64::load: the word in the cell.
AtomicLoad(cell) == cell

\* A store that does not compare: what the loop would be without the CAS.
CompareAndSwapLost(cell, current, new) == new

\* compare_and_swap(current, new): the cell's contents afterwards.  The swap
\* happens iff the cell holds `current`; the call returns the previous contents.
CompareAndSwap(cell, current, new) == IF cell = current THEN new ELSE cell

\* A caller that takes every compare_and_swap for a success.
CasTakenForSuccess(cell, current) == TRUE

\* Whether compare_and_swap(current, _) on `cell` returns `current` (succeeds).
CasSucceeds(cell, current) == cell = current

\* `new` of AtomicF64::fetch_add, from the loaded bits `current`.
F64AddBits(current, val) == F64ToBits(FAdd(F64FromBits(current), val))

\* A fetch_sub that adds.
F64SubBitsUp(current, val) == F64ToBits(FAdd(F64FromBits(current), val))

\* `new` of AtomicF64::fetch_sub, from the loaded bits `current`.
F64SubBits(current, val) == F64ToBits(FSub(F64FromBits(current), val))

\* AtomicF64::fetch_add with no concurrent writer: one pass of the loop.
F64FetchAdd(cell, val) ==
    LET current == AtomicLoad(cell)
    IN  CompareAndSwap(cell, current, F64AddBits(current, val))

\* AtomicF64::fetch_sub with no concurrent writer.
F64FetchSub(cell, val) ==
    LET current == AtomicLoad(cell)
    IN  CompareAndSwap(cell, current, F64SubBits(current, val))

\* AtomicF64::store with no concurrent writer.
F64Store(cell, val) ==
    LET current == AtomicLoad(cell)
    IN  CompareAndSwap(cell, current, F64ToBits(val))

\* A fetch_add that subtracts.
IntFetchAddDown(cell, val) == SubU64(cell, val)

\* AtomicU64::fetch_add / AtomicI64::fetch_add: wrapping, one atomic step.
IntFetchAdd(cell, val) == AddU64(cell, val)

\* AtomicU64::fetch_sub / AtomicI64::fetch_sub: wrapping, one atomic step.
IntFetchSub(cell, val) == SubU64(cell, val)

\* `1 as _` and `0 as _` in the numeric type of the kind.
NumOne(kind) == IF kind = "float" THEN Fin(2) ELSE EncInt(1)

NumZero(kind) == IF kind = "float" THEN Fin(0) ELSE EncInt(0)

\* AtomicNum::new: AtomicU64::new(0), AtomicI64::new(0), AtomicF64::zeroed().
AtomicNew(kind) == ZeroWord

\* AtomicNum::inc_by on a cell no other thread writes.
AtomicIncBy(kind, cell, val) ==
    IF kind = "float" THEN F64FetchAdd(cell, val) ELSE IntFetchAdd(cell, val)

\* AtomicNum::inc
AtomicInc(kind, cell) == AtomicIncBy(kind, cell, NumOne(kind))

\* AtomicNum::dec_by on a cell no other thread writes.
AtomicDecBy(kind, cell, val) ==
    IF kind = "float" THEN F64FetchSub(cell, val) ELSE IntFetchSub(cell, val)

\* A dec that increments.
AtomicDecUp(kind, cell) == AtomicIncBy(kind, cell, NumOne(kind))

\* AtomicNum::dec
AtomicDec(kind, cell) == AtomicDecBy(kind, cell, NumOne(kind))

\* AtomicNum::set
AtomicSet(kind, cell, val) ==
    IF kind = "float" THEN F64Store(cell, val) ELSE val

\* A clear that stores nothing.
AtomicClearKeeps(kind, cell) == cell

\* AtomicNum::clear
AtomicClear(kind, cell) == AtomicSet(kind, cell, NumZero(kind))

\* AtomicNum::get: the cell's value in the numeric type.
AtomicGet(kind, cell) ==
    IF kind = "float" THEN F64FromBits(AtomicLoad(cell)) ELSE AtomicLoad(cell)

\* The order v < w of the numeric type (PartialOrd of u64, i64, f64).
NumLt(kind, v, w) ==
    CASE kind = "uint" -> LtU64(v, w)
      [] kind = "int" -> LtI64(v, w)
      [] OTHER -> FLt(v, w)

\* The guard of IntCounter::inc_by / try_inc_by (!inc.is_negative()) and of
\* FloatCounter::inc_by / try_inc_by (inc.is_sign_positive()); UintCounter has none.
IncAccepted(kind, val) ==
    CASE kind = "int" -> ~IsNegI64(val)
      [] kind = "float" -> IsSignPositive(val)
      [] OTHER -> TRUE

(***************************************************************************)
(* State.                                                                  *)
(*                                                                         *)
(* One metric used by one thread (UintCounter, IntCounter, FloatCounter,   *)
(* UintGauge, IntGauge, FloatGauge):                                       *)
(*   mKind, mType   the numeric kind and "counter" or "gauge"              *)
(*   value          the metric's atomic cell (a word)                      *)
(*   got            what the last get() returned (a Num)                   *)
(*   lastOp         the last call: its name, argument, outcome ("ok",      *)
(*                  "panic", "err") and the cell before it                 *)
(*   refv           the reference fold of the calls that returned normally *)
(*                  (an integer modulo 2^64 for u64 and i64, a float for   *)
(*                  f64), kept beside the cell                             *)
(*   nOps, halted   calls made; whether the thread panicked                *)
(*                                                                         *)
(* One atomic cell shared by concurrent threads (a counter's value, or a   *)
(* bare cell on which threads call inc_by and dec_by):                     *)
(*   cKind, cMode   the numeric kind; "counter" (inc, inc_by only) or      *)
(*                  "cell" (inc_by and dec_by)                             *)
(*   cell           the shared word                                        *)
(*   pc, opv, cur   per thread: where it stands ("idle"; "load": in the    *)
(*                  CAS loop before the load; "cas": before the            *)
(*                  compare_and_swap), its call, and the bits it loaded    *)
(*   calls          per thread: the calls that have returned               *)
(*   seen           what the last get() of an observer returned            *)
(*   applied        the integer sum of the deltas of the returned calls    *)
(*                  (in units for u64/i64, in halves for f64)              *)
(*   wrapped        a fetch_add or fetch_sub has overflowed the word       *)
(*   written        the bit patterns successful updates stored             *)
(*   lastCas        the last compare_and_swap: success, cell before, after *)
(*   retried        some compare_and_swap has failed                       *)
(*                                                                         *)
(* One HistogramCore observed by concurrent threads:                       *)
(*   hKind          the numeric kind of the bounds, bucket counters and    *)
(*                  sum (Histogram<AtomicF64>, HistogramCore<AtomicU64>)   *)
(*   buckets        the upper bounds (Vec<Atomic::Type>), fixed at new     *)
(*   values         one atomic cell per bucket                             *)
(*   count, sum     the AtomicU64 count and the sum cell                   *)
(*   hpc, hval,     per thread: where it stands in observe ("idle",        *)
(*   hcur           "bucket", "bcas", "count", "sum", "scas"), the value   *)
(*                  it observes, and the bits it loaded                    *)
(*   started        the observe calls begun                                *)
(*   obs            how many times each value has been observed            *)
(*   lastInc        the last bucket increment: the value observed and the  *)
(*                  bucket cells before and after it                       *)
(*                                                                         *)
(* The same HistogramCore with clear, observe_bucket and one               *)
(* LocalHistogram (InnerLocalHist) that a single owner stages into and     *)
(* flushes:                                                                *)
(*   cidx, csnap    per thread: the bucket its clear has reached, and the  *)
(*                  calls begun when its clear was entered                 *)
(*   clears         the clear calls begun                                  *)
(*   pure           the core holds nothing but the direct observations     *)
(*                  counted in obs (no flush has written to it, no clear   *)
(*                  has overlapped another call)                           *)
(*   lastOB         the last observe_bucket call: its value and result     *)
(*   lvalues,       the local buffer: staged per-bucket values, staged     *)
(*   lcount, lsum   count (u64) and staged sum                             *)
(*   lpc, lidx      where the owner stands in flush ("idle", "bucket",     *)
(*                  "count", "sum") and the bucket it has reached          *)
(*   sobs, fobs     how many times each value is staged / has been flushed *)
(*   staged         the local observe calls made                           *)
(*   flushes,       the flush calls made, and how many of them found       *)
(*   emptyFlushes   count == 0                                             *)
(*   lastLocal      the last call on the local histogram that returned     *)
(*                  ("new", "observe", "clear", "flush", or "flush_empty"  *)
(*                  for a flush that found count == 0)                     *)
(*                                                                         *)
(* One RegistryBuilder:                                                    *)
(*   rInputs        `inputs`: None, or Some(list of collectors)            *)
(*   rLog           the collectors passed to register / register_all       *)
(*   rResult        what build returned (Unbuilt before)                   *)
(*   rOther         a second builder given the same collectors: the order  *)
(*                  it was given them in and what its build returned       *)
(*   rValues        the current value of each collector's metric           *)
(*   rCollected     what the last Registry::collect returned               *)
(*   rCollects      the number of collect calls                            *)
(*                                                                         *)
(* One call of a constructor or of a text rendering:                       *)
(*   tArg           its arguments                                          *)
(*   tRet           what it returned (NotCalled before)                    *)
(*                                                                         *)
(* Timers on one target:                                                   *)
(*   tmTarget       the Gauge (its cell) or the Histogram (its buckets,    *)
(*                  bucket counters, count and sum) the timers refer to    *)
(*   timers         each handle: "none" before Timer::new, "running", then *)
(*                  "released"; the seconds it measured and whether it was *)
(*                  released by observe() or by leaving its scope          *)
(*   tmCalls        how many times each handle has called                  *)
(*                  Observable::observe on the target                      *)
(*                                                                         *)
(* One AtomicF64 shared by the threads, with fetch_add, fetch_sub, store:  *)
(*   fInit, fCell   the bits the cell started with and the bits it holds   *)
(*   fpc            where each thread stands ("idle", "load", "cas")       *)
(*   fop, fcur      the call a thread is in and the bits it last loaded    *)
(*   fnew           `new`: the value the thread means to write             *)
(*   fCalls         the calls each thread has finished                     *)
(*   fUpdates       the compare-and-swaps that have succeeded              *)
(*   fLoadAt        fUpdates at the time of each thread's last load        *)
(*   fLast          each thread's last finished call: what it was, the     *)
(*                  bits it replaced, what it returned and fUpdates then   *)
(*   fRetried       the compare-and-swaps that have failed                 *)
(***************************************************************************)
VARIABLES mKind, mType, value, got, lastOp, refv, nOps, halted,
          cKind, cMode, cell, pc, opv, cur, calls, seen, applied, wrapped,
          written, lastCas, retried,
          hKind, buckets, values, count, sum, hpc, hval, hcur, started, obs,
          lastInc,
          cidx, csnap, clears, pure, lastOB, lvalues, lcount, lsum, lpc, lidx,
          sobs, fobs, staged, flushes, emptyFlushes, lastLocal,
          rInputs, rLog, rResult, rOther, rValues, rCollected, rCollects,
          tArg, tRet,
          tmTarget, timers, tmCalls,
          fInit, fCell, fpc, fop, fcur, fnew, fCalls, fUpdates, fLoadAt, fLast,
          fRetried

metricVars == <<mKind, mType, value, got, lastOp, refv, nOps, halted>>

concVars == <<cKind, cMode, cell, pc, opv, cur, calls, seen, applied, wrapped,
              written, lastCas, retried>>

histVars == <<hKind, buckets, values, count, sum, hpc, hval, hcur, started, obs,
              lastInc>>

localVars == <<cidx, csnap, clears, pure, lastOB, lvalues, lcount, lsum, lpc, lidx,
               sobs, fobs, staged, flushes, emptyFlushes, lastLocal>>

regVars == <<rInputs, rLog, rResult, rOther, rValues, rCollected, rCollects>>

textVars == <<tArg, tRet>>

timerVars == <<tmTarget, timers, tmCalls>>

f64Vars ==
    <<fInit, fCell, fpc, fop, fcur, fnew, fCalls, fUpdates, fLoadAt, fLast, fRetried>>

vars == <<metricVars, concVars, histVars, localVars, regVars, textVars, timerVars,
          f64Vars>>

\* Bounds of the model.
MaxOps == 3

MaxArg == 2

\* The arguments a call is tried with: u64 and i64 arguments are the integers
\* -MaxArg..MaxArg modulo 2^64 (so that -1 is u64::MAX as a u64), f64 arguments the
\* multiples of 0.5 of magnitude up to MaxArg halves, -0.0, +Inf and NaN.
ArgReps(kind) ==
    IF kind = "float"
    THEN {Fin(h) : h \in -MaxArg..MaxArg} \cup {NegZero, PosInf, NaN}
    ELSE -MaxArg..MaxArg

\* The Num an argument stands for.
ToNum(kind, a) == IF kind = "float" THEN a ELSE EncInt(a)

\* The reference arithmetic: integers (read modulo 2^64), f64 values.
RefZero(kind) == IF kind = "float" THEN Fin(0) ELSE 0

RefOne(kind) == IF kind = "float" THEN Fin(2) ELSE 1

RefAdd(kind, r, a) == IF kind = "float" THEN FAdd(r, a) ELSE r + a

RefSub(kind, r, a) == IF kind = "float" THEN FSub(r, a) ELSE r - a

\* The Num a reference value stands for.
RefNum(kind, r) == IF kind = "float" THEN r ELSE EncInt(r)

\* The cell contents a reference value stands for.
RefBits(kind, r) == IF kind = "float" THEN F64ToBits(r) ELSE EncInt(r)

NoOp(kind) == [op |-> "new", arg |-> NumZero(kind), out |-> "ok", before |-> ZeroWord]

\* Counter::new / Gauge::new behind Labeled::new: the value starts at zero.
InitMetric ==
    /\ mKind \in Kinds
    /\ mType \in {"counter", "gauge"}
    /\ value = AtomicNew(mKind)
    /\ got = NumZero(mKind)
    /\ lastOp = NoOp(mKind)
    /\ refv = RefZero(mKind)
    /\ nOps = 0
    /\ halted = FALSE

\* A metric that is not in use (the other specifications).
IdleMetric ==
    /\ mKind = "uint"
    /\ mType = "counter"
    /\ value = ZeroWord
    /\ got = ZeroWord
    /\ lastOp = NoOp("uint")
    /\ refv = 0
    /\ nOps = 0
    /\ halted = FALSE

\* The threads that share the cell.
Threads == {"t1", "t2"}

NoCall == [op |-> "none", d |-> 0]

NoCas == [ok |-> TRUE, before |-> ZeroWord, after |-> ZeroWord]

\* A shared cell that is not in use (the other specifications).
IdleConc ==
    /\ cKind = "uint"
    /\ cMode = "counter"
    /\ cell = ZeroWord
    /\ pc = [t \in Threads |-> "idle"]
    /\ opv = [t \in Threads |-> NoCall]
    /\ cur = [t \in Threads |-> ZeroWord]
    /\ calls = [t \in Threads |-> 0]
    /\ seen = ZeroWord
    /\ applied = 0
    /\ wrapped = FALSE
    /\ written = {ZeroWord}
    /\ lastCas = NoCas
    /\ retried = FALSE

\* The values observe is called with: multiples of 0.5 counted in halves for f64
\* (0.5, 1.0, 3.0, 100.0), integers for u64.
ObsReps(kind) == IF kind = "float" THEN {1, 2, 6, 200} ELSE {1, 2, 4, 5}

NoInc == [val |-> 0, before |-> <<>>, after |-> <<>>]

\* A histogram that is not in use (the other specifications).
IdleHist ==
    /\ hKind = "uint"
    /\ buckets = <<>>
    /\ values = <<>>
    /\ count = ZeroWord
    /\ sum = ZeroWord
    /\ hpc = [t \in Threads |-> "idle"]
    /\ hval = [t \in Threads |-> 0]
    /\ hcur = [t \in Threads |-> ZeroWord]
    /\ started = 0
    /\ obs = [v \in ObsReps("uint") |-> 0]
    /\ lastInc = NoInc

\* The values staged in a LocalHistogram: those observe is called with, and the
\* zero of a Timer.
StageReps(kind) == ObsReps(kind) \cup {0}

NoSnap == [started |-> 0, flushes |-> 0, clears |-> 0, alone |-> FALSE]

NoObserveBucket == [val |-> 0, res |-> "none"]

\* No clear, observe_bucket or LocalHistogram in use (the other specifications).
IdleLocal ==
    /\ cidx = [t \in Threads |-> 0]
    /\ csnap = [t \in Threads |-> NoSnap]
    /\ clears = 0
    /\ pure = TRUE
    /\ lastOB = NoObserveBucket
    /\ lvalues = <<>>
    /\ lcount = ZeroWord
    /\ lsum = ZeroWord
    /\ lpc = "idle"
    /\ lidx = 0
    /\ sobs = [v \in StageReps("uint") |-> 0]
    /\ fobs = [v \in StageReps("uint") |-> 0]
    /\ staged = 0
    /\ flushes = 0
    /\ emptyFlushes = 0
    /\ lastLocal = "new"

\* `inputs: None` of RegistryBuilder::new(); Some(list) is [some |-> TRUE, ...].
NoInputs == [some |-> FALSE, list |-> <<>>]

\* build has not been called.
Unbuilt == [kind |-> "unbuilt", name |-> <<>>, inputs |-> <<>>]

\* A RegistryBuilder that is not in use (the other specifications).
IdleReg ==
    /\ rInputs = NoInputs
    /\ rLog = <<>>
    /\ rResult = Unbuilt
    /\ rOther = [list |-> <<>>, result |-> Unbuilt]
    /\ rValues = <<>>
    /\ rCollected = <<>>
    /\ rCollects = 0

\* No call has been made.
NotCalled == [kind |-> "none"]

\* No constructor or rendering under study (the other specifications).
IdleText ==
    /\ tArg = <<>>
    /\ tRet = NotCalled

NoTarget == [type |-> "none"]

IdleTimer ==
    /\ tmTarget = NoTarget
    /\ timers = <<>>
    /\ tmCalls = <<>>

IdleF64 ==
    /\ fInit = ZeroWord
    /\ fCell = ZeroWord
    /\ fpc = <<>>
    /\ fop = <<>>
    /\ fcur = <<>>
    /\ fnew = <<>>
    /\ fCalls = <<>>
    /\ fUpdates = 0
    /\ fLoadAt = <<>>
    /\ fLast = <<>>
    /\ fRetried = 0

\* A call that returns normally, leaving `newcell` in the metric and `r` as the fold.
Returns(op, arg, newcell, r) ==
    /\ value' = newcell
    /\ refv' = r
    /\ lastOp' = [op |-> op, arg |-> arg, out |-> "ok", before |-> value]
    /\ nOps' = nOps + 1
    /\ UNCHANGED <<mKind, mType, got, halted>>
    /\ UNCHANGED <<concVars, histVars, localVars, regVars, timerVars, f64Vars, textVars>>

\* A call that is refused: a failed assert! (panic) or an Err result.
Refused(op, arg, out) ==
    /\ lastOp' = [op |-> op, arg |-> arg, out |-> out, before |-> value]
    /\ nOps' = nOps + 1
    /\ halted' = (out = "panic")
    /\ UNCHANGED <<mKind, mType, value, got, refv>>
    /\ UNCHANGED <<concVars, histVars, localVars, regVars, timerVars, f64Vars, textVars>>

Running == ~halted /\ nOps < MaxOps

\* UintCounter::inc, IntCounter::inc, FloatCounter::inc, *Gauge::inc
Inc ==
    /\ Running
    /\ Returns("inc", NumOne(mKind), AtomicInc(mKind, value),
               RefAdd(mKind, refv, RefOne(mKind)))

\* UintCounter::inc_by, IntCounter::inc_by, FloatCounter::inc_by (the last two
\* assert that the argument is not negative), *Gauge::inc_by (no assert)
IncBy ==
    /\ Running
    /\ \E a \in ArgReps(mKind) :
         LET arg == ToNum(mKind, a)
         IN  IF mType = "counter" /\ ~IncAccepted(mKind, arg)
             THEN Refused("inc_by", arg, "panic")
             ELSE Returns("inc_by", arg, AtomicIncBy(mKind, value, arg),
                          RefAdd(mKind, refv, a))

\* IntCounter::try_inc_by, FloatCounter::try_inc_by
TryIncBy ==
    /\ Running
    /\ mType = "counter"
    /\ mKind \in {"int", "float"}
    /\ \E a \in ArgReps(mKind) :
         LET arg == ToNum(mKind, a)
         IN  IF IncAccepted(mKind, arg)
             THEN Returns("try_inc_by", arg, AtomicIncBy(mKind, value, arg),
                          RefAdd(mKind, refv, a))
             ELSE Refused("try_inc_by", arg, "err")

\* UintGauge::dec, IntGauge::dec, FloatGauge::dec
Dec ==
    /\ Running
    /\ mType = "gauge"
    /\ Returns("dec", NumOne(mKind), AtomicDec(mKind, value),
               RefSub(mKind, refv, RefOne(mKind)))

\* UintGauge::dec_by, IntGauge::dec_by, FloatGauge::dec_by
DecBy ==
    /\ Running
    /\ mType = "gauge"
    /\ \E a \in ArgReps(mKind) :
         Returns("dec_by", ToNum(mKind, a), AtomicDecBy(mKind, value, ToNum(mKind, a)),
                 RefSub(mKind, refv, a))

\* *Counter::set, *Gauge::set
Set ==
    /\ Running
    /\ \E a \in ArgReps(mKind) :
         Returns("set", ToNum(mKind, a), AtomicSet(mKind, value, ToNum(mKind, a)), a)

\* *Counter::clear, *Gauge::clear
Clear ==
    /\ Running
    /\ Returns("clear", NumZero(mKind), AtomicClear(mKind, value), RefZero(mKind))

\* *Counter::get, *Gauge::get
Get ==
    /\ Running
    /\ got' = AtomicGet(mKind, value)
    /\ lastOp' = [op |-> "get", arg |-> NumZero(mKind), out |-> "ok", before |-> value]
    /\ nOps' = nOps + 1
    /\ UNCHANGED <<mKind, mType, value, refv, halted>>
    /\ UNCHANGED <<concVars, histVars, localVars, regVars, timerVars, f64Vars, textVars>>

Init == InitMetric /\ IdleConc /\ IdleHist /\ IdleLocal /\ IdleReg /\ IdleText /\ IdleTimer
        /\ IdleF64

Next ==
    \/ Inc
    \/ IncBy
    \/ TryIncBy
    \/ Dec
    \/ DecBy
    \/ Set
    \/ Clear
    \/ Get

Spec == Init /\ [][Next]_vars

(***************************************************************************)
(* Properties of one metric used by one thread (Spec).                     *)
(***************************************************************************)
\* The value a word of the metric's cell holds, and the argument of the last call.
Before == AtomicGet(mKind, lastOp.before)

After == AtomicGet(mKind, value)

\* d < 0 and d >= 0 in the numeric type (both false of NaN; -0.0 >= 0 holds).
IsNegative(kind, d) == NumLt(kind, d, NumZero(kind))

IsNonNegative(kind, d) ==
    IF kind = "float" THEN FLe(NumZero(kind), d) ELSE ~NumLt(kind, d, NumZero(kind))

\* C3: over every sequence of public operations on a UintCounter, IntCounter or
\* FloatCounter, no call other than clear leaves the value lower than it found it.
C3_CounterNeverDecreases ==
    (mType = "counter" /\ lastOp.op \notin {"new", "clear"})
        => ~NumLt(mKind, After, Before)

\* C5: IntCounter::inc_by and FloatCounter::inc_by panic on a negative delta and
\* leave the value unchanged; on a non-negative delta (zero included) they return
\* and the value is the old value plus the delta.
C5_IncByPanicsIffNegative ==
    (mType = "counter" /\ mKind \in {"int", "float"} /\ lastOp.op = "inc_by")
        => /\ IsNegative(mKind, lastOp.arg)
                => (lastOp.out = "panic" /\ value = lastOp.before)
           /\ IsNonNegative(mKind, lastOp.arg)
                => /\ lastOp.out = "ok"
                   /\ value = AtomicIncBy(mKind, lastOp.before, lastOp.arg)

\* C6: IntCounter::try_inc_by and FloatCounter::try_inc_by return Err on a negative
\* delta and leave the value unchanged; on a non-negative delta (zero included)
\* they return Ok and the value is the old value plus the delta.
C6_TryIncByErrIffNegative ==
    (mType = "counter" /\ mKind \in {"int", "float"} /\ lastOp.op = "try_inc_by")
        => /\ IsNegative(mKind, lastOp.arg)
                => (lastOp.out = "err" /\ value = lastOp.before)
           /\ IsNonNegative(mKind, lastOp.arg)
                => /\ lastOp.out = "ok"
                   /\ value = AtomicIncBy(mKind, lastOp.before, lastOp.arg)

\* C7: for a counter or gauge used by one thread, the cell holds the reference fold
\* of the calls made since construction (inc adds 1, inc_by adds d, dec subtracts
\* 1, dec_by subtracts d, set(v) replaces by v, clear replaces by 0), and get()
\* returns it.
C7_GetEqualsReferenceFold ==
    /\ value = RefBits(mKind, refv)
    /\ lastOp.op = "get" => got = RefNum(mKind, refv)

\* C7 witness: a gauge whose third call is a get() that returns a value other than
\* zero after a dec or dec_by.
C7_Witness ==
    /\ mType = "gauge"
    /\ nOps = MaxOps
    /\ lastOp.op = "get"
    /\ got # NumZero(mKind)
    /\ IsNegative(mKind, got)

(***************************************************************************)
(* An IntCounter used through inc, inc_by and try_inc_by only, with        *)
(* increments up to i64::MAX.  The reference value refv is not kept here.  *)
(***************************************************************************)

\* 0, 1, -1 and i64::MAX.
IntCounterArgs == {EncInt(0), EncInt(1), EncInt(-1), I64Max}

InitIntCounter ==
    /\ mKind = "int"
    /\ mType = "counter"
    /\ value = AtomicNew(mKind)
    /\ got = NumZero(mKind)
    /\ lastOp = NoOp(mKind)
    /\ refv = RefZero(mKind)
    /\ nOps = 0
    /\ halted = FALSE

\* IntCounter::inc_by(inc): the assert, then Counter::inc_by.
IntCounterIncBy ==
    /\ Running
    /\ \E arg \in IntCounterArgs :
         IF ~IncAccepted(mKind, arg)
         THEN Refused("inc_by", arg, "panic")
         ELSE Returns("inc_by", arg, AtomicIncBy(mKind, value, arg), refv)

\* IntCounter::try_inc_by(inc)
IntCounterTryIncBy ==
    /\ Running
    /\ \E arg \in IntCounterArgs :
         IF IncAccepted(mKind, arg)
         THEN Returns("try_inc_by", arg, AtomicIncBy(mKind, value, arg), refv)
         ELSE Refused("try_inc_by", arg, "err")

\* IntCounter::inc()
IntCounterInc ==
    /\ Running
    /\ Returns("inc", NumOne(mKind), AtomicInc(mKind, value), refv)

NextIntCounter ==
    \/ IntCounterInc
    \/ IntCounterIncBy
    \/ IntCounterTryIncBy
    \/ Get

InitI == InitIntCounter /\ IdleConc /\ IdleHist /\ IdleLocal /\ IdleReg /\ IdleText /\ IdleTimer
        /\ IdleF64

SpecIntCounter == InitI /\ [][NextIntCounter]_vars

(***************************************************************************)
(* One cell shared by concurrent threads (SpecConc).                       *)
(***************************************************************************)
\* Calls each thread makes.
MaxCalls == 2

\* The deltas of the concurrent calls: 1 and 2 (0.5 and 1.0 for f64, which are
\* kept in halves), and for u64 also u64::MAX (-1 modulo 2^64).
ConcDeltas(kind) == IF kind = "uint" THEN {1, 2, -1} ELSE {1, 2}

\* The delta as a Num.
DeltaNum(kind, d) == IF kind = "float" THEN Fin(d) ELSE EncInt(d)

\* The calls a thread may make: a counter offers inc (inc_by(1)) and inc_by only.
ConcOps(mode) == IF mode = "counter" THEN {"add"} ELSE {"add", "sub"}

InitConc ==
    /\ cKind \in Kinds
    /\ cMode \in {"counter", "cell"}
    /\ cell = AtomicNew(cKind)
    /\ pc = [t \in Threads |-> "idle"]
    /\ opv = [t \in Threads |-> NoCall]
    /\ cur = [t \in Threads |-> ZeroWord]
    /\ calls = [t \in Threads |-> 0]
    /\ seen = NumZero(cKind)
    /\ applied = 0
    /\ wrapped = FALSE
    /\ written = {AtomicNew(cKind)}
    /\ lastCas = NoCas
    /\ retried = FALSE

\* Whether the native fetch_add / fetch_sub of `val` on `w` wraps around.
IntWraps(kind, op, w, val) ==
    CASE kind = "uint" /\ op = "add" -> CarryU64(w, val)
      [] kind = "uint" /\ op = "sub" -> LtU64(w, val)
      [] op = "add" -> OverflowI64(w, val)
      [] OTHER -> OverflowI64(w, NegU64(val)) \/ val = <<0, 0, 0, HalfLimb>>

\* AtomicU64 / AtomicI64 inc, inc_by, dec_by: one native fetch_add or fetch_sub.
IntCall(t) ==
    /\ cKind # "float"
    /\ pc[t] = "idle"
    /\ calls[t] < MaxCalls
    /\ \E op \in ConcOps(cMode), d \in ConcDeltas(cKind) :
         LET val == DeltaNum(cKind, d)
         IN  /\ cell' = IF op = "add" THEN IntFetchAdd(cell, val)
                        ELSE IntFetchSub(cell, val)
             /\ applied' = IF op = "add" THEN applied + d ELSE applied - d
             /\ wrapped' = (wrapped \/ IntWraps(cKind, op, cell, val))
             /\ written' = written \cup {cell'}
    /\ calls' = [calls EXCEPT ![t] = @ + 1]
    /\ UNCHANGED <<cKind, cMode, pc, opv, cur, seen, lastCas, retried>>
    /\ UNCHANGED <<metricVars, histVars, localVars, regVars, timerVars, f64Vars, textVars>>

\* AtomicF64::fetch_add / fetch_sub, entered from inc, inc_by or dec_by: the first
\* `self.0.load(order)` of the loop.
F64Enter(t) ==
    /\ cKind = "float"
    /\ pc[t] = "idle"
    /\ calls[t] < MaxCalls
    /\ \E op \in ConcOps(cMode), d \in ConcDeltas(cKind) :
         opv' = [opv EXCEPT ![t] = [op |-> op, d |-> d]]
    /\ cur' = [cur EXCEPT ![t] = AtomicLoad(cell)]
    /\ pc' = [pc EXCEPT ![t] = "cas"]
    /\ UNCHANGED <<cKind, cMode, cell, calls, seen, applied, wrapped, written, lastCas,
                   retried>>
    /\ UNCHANGED <<metricVars, histVars, localVars, regVars, timerVars, f64Vars, textVars>>

\* The load of a later pass of the loop, after a failed compare_and_swap.
F64Reload(t) ==
    /\ pc[t] = "load"
    /\ cur' = [cur EXCEPT ![t] = AtomicLoad(cell)]
    /\ pc' = [pc EXCEPT ![t] = "cas"]
    /\ UNCHANGED <<cKind, cMode, cell, opv, calls, seen, applied, wrapped, written,
                   lastCas, retried>>
    /\ UNCHANGED <<metricVars, histVars, localVars, regVars, timerVars, f64Vars, textVars>>

\* `self.0.compare_and_swap(current, f64::to_bits(new), order) == current`: on
\* success the call returns, otherwise the loop goes round.
F64Cas(t) ==
    /\ pc[t] = "cas"
    /\ LET new == IF opv[t].op = "add"
                  THEN F64AddBits(cur[t], Fin(opv[t].d))
                  ELSE F64SubBits(cur[t], Fin(opv[t].d))
           ok  == CasSucceeds(cell, cur[t])
       IN  /\ cell' = CompareAndSwap(cell, cur[t], new)
           /\ lastCas' = [ok |-> ok, before |-> cell, after |-> cell']
           /\ retried' = (retried \/ ~ok)
           /\ IF ok
              THEN /\ pc' = [pc EXCEPT ![t] = "idle"]
                   /\ calls' = [calls EXCEPT ![t] = @ + 1]
                   /\ applied' = IF opv[t].op = "add" THEN applied + opv[t].d
                                 ELSE applied - opv[t].d
                   /\ written' = written \cup {new}
                   /\ opv' = [opv EXCEPT ![t] = NoCall]
                   /\ cur' = [cur EXCEPT ![t] = ZeroWord]
              ELSE /\ pc' = [pc EXCEPT ![t] = "load"]
                   /\ UNCHANGED <<calls, applied, written, opv, cur>>
    /\ UNCHANGED <<cKind, cMode, seen, wrapped>>
    /\ UNCHANGED <<metricVars, histVars, localVars, regVars, timerVars, f64Vars, textVars>>

\* Counter::get by an observer: one load.
ConcGet ==
    /\ seen' = AtomicGet(cKind, cell)
    /\ UNCHANGED <<cKind, cMode, cell, pc, opv, cur, calls, applied, wrapped, written,
                   lastCas, retried>>
    /\ UNCHANGED <<metricVars, histVars, localVars, regVars, timerVars, f64Vars, textVars>>

NextConc ==
    \/ \E t \in Threads : IntCall(t)
    \/ \E t \in Threads : F64Enter(t)
    \/ \E t \in Threads : F64Reload(t)
    \/ \E t \in Threads : F64Cas(t)
    \/ ConcGet

InitC == InitConc /\ IdleMetric /\ IdleHist /\ IdleLocal /\ IdleReg /\ IdleText /\ IdleTimer
        /\ IdleF64

SpecConc == InitC /\ [][NextConc]_vars

\* Every call has returned.
AllReturned == \A t \in Threads : pc[t] = "idle"

\* Every thread has made all its calls.
AllDone == \A t \in Threads : pc[t] = "idle" /\ calls[t] = MaxCalls

(***************************************************************************)
(* Properties of the shared cell (SpecConc).                               *)
(***************************************************************************)
\* The sum of the deltas of the returned calls, in the numeric type.
AppliedNum == IF cKind = "float" THEN Fin(applied) ELSE EncInt(applied)

\* C1: when every inc / inc_by call on a counter has returned, whatever the
\* interleaving, get() equals the sum of the deltas applied (taken in the counter's
\* numeric type: modulo 2^64 for u64 and i64).
C1_NoLostUpdate ==
    (cMode = "counter" /\ AllReturned) => AtomicGet(cKind, cell) = AppliedNum

\* C1 witness: an f64 counter on which both threads have made all their calls, one
\* of them after a failed compare_and_swap, and get() returns the nonzero sum.
C1_Witness ==
    /\ cMode = "counter"
    /\ cKind = "float"
    /\ AllDone
    /\ retried
    /\ AtomicGet(cKind, cell) = Fin(applied)
    /\ applied >= 2 * MaxCalls

C4_F64SumAndNoCorruption ==
    cKind = "float"
        => /\ AllReturned => cell = F64ToBits(Fin(applied))
           /\ cell \in written
           /\ ~lastCas.ok => lastCas.after = lastCas.before

\* C4 witness: all calls on an f64 cell have returned, a compare_and_swap failed on
\* the way, and fetch_sub calls outweigh fetch_add calls.
C4_Witness ==
    /\ cKind = "float"
    /\ cMode = "cell"
    /\ AllDone
    /\ retried
    /\ applied < 0
    /\ cell = F64ToBits(Fin(applied))

(***************************************************************************)
(* HistogramCore under concurrent observe calls (SpecHist).                *)
(***************************************************************************)
\* observe calls made in all.
MaxObs == 3

\* A bucket test that excludes the bound itself.
NumLeStrict(kind, v, w) == NumLt(kind, v, w)

\* The order v <= w of the numeric type (`val <= *b`; false when either is NaN).
NumLe(kind, v, w) == IF kind = "float" THEN FLe(v, w) ELSE ~NumLt(kind, w, v)

\* The bucket lists a histogram is built with.  HistogramBuilder::build and
\* HistogramGroup::new take any non-empty list: it need not be sorted, and the
\* last bound need not be +Inf.
BucketLists(kind) ==
    IF kind = "float"
    THEN {<<Fin(2), Fin(10), PosInf>>, <<Fin(2), Fin(10)>>, <<Fin(10), Fin(2)>>}
    ELSE {<<EncInt(1), EncInt(2), EncInt(3), EncInt(4)>>, <<EncInt(2), EncInt(1)>>}

\* HistogramCore::new: one zero cell per bucket, count and sum zero.
InitHist ==
    /\ hKind \in {"uint", "float"}
    /\ buckets \in BucketLists(hKind)
    /\ values = [i \in 1..Len(buckets) |-> AtomicNew(hKind)]
    /\ count = ZeroWord
    /\ sum = AtomicNew(hKind)
    /\ hpc = [t \in Threads |-> "idle"]
    /\ hval = [t \in Threads |-> 0]
    /\ hcur = [t \in Threads |-> ZeroWord]
    /\ started = 0
    /\ obs = [v \in ObsReps(hKind) |-> 0]
    /\ lastInc = NoInc

RECURSIVE PositionFrom(_, _, _, _)
\* The first index at or after i of a bound with val <= bound, 0 when there is none.
PositionFrom(kind, bs, val, i) ==
    IF i > Len(bs) THEN 0
    ELSE IF NumLe(kind, val, bs[i]) THEN i
    ELSE PositionFrom(kind, bs, val, i + 1)

\* `self.buckets.iter().position(|b| val <= *b)`: Some(idx) as idx (from 1), None as 0.
Position(kind, bs, val) == PositionFrom(kind, bs, val, 1)

\* An observe that returns at once when no bucket matches.
ObserveMissReturns == "idle"

\* Where observe goes on when position() is None: the `if let` is skipped and
\* `self.count.inc()` follows.
ObserveMissNext == "count"

\* The bucket index of the value thread t observes.
Idx(t) == Position(hKind, buckets, DeltaNum(hKind, hval[t]))

\* HistogramCore::observe(val) is entered: position() reads only the immutable
\* bounds.
HEnter(t) ==
    /\ hpc[t] = "idle"
    /\ started < MaxObs
    /\ \E v \in ObsReps(hKind) :
         /\ hval' = [hval EXCEPT ![t] = v]
         /\ obs' = [obs EXCEPT ![v] = @ + 1]
         /\ hpc' = [hpc EXCEPT ![t] =
                      IF Position(hKind, buckets, DeltaNum(hKind, v)) = 0
                      THEN ObserveMissNext ELSE "bucket"]
    /\ started' = started + 1
    /\ UNCHANGED <<hKind, buckets, values, count, sum, hcur, lastInc>>
    /\ UNCHANGED <<metricVars, concVars, localVars, regVars, timerVars, f64Vars, textVars>>

\* `self.values[idx].inc()` on an AtomicU64: one fetch_add.
HBucketInt(t) ==
    /\ hpc[t] = "bucket"
    /\ hKind # "float"
    /\ values' = [values EXCEPT ![Idx(t)] = IntFetchAdd(@, NumOne(hKind))]
    /\ lastInc' = [val |-> hval[t], before |-> values, after |-> values']
    /\ hpc' = [hpc EXCEPT ![t] = "count"]
    /\ UNCHANGED <<hKind, buckets, count, sum, hval, hcur, started, obs>>
    /\ UNCHANGED <<metricVars, concVars, localVars, regVars, timerVars, f64Vars, textVars>>

\* `self.values[idx].inc()` on an AtomicF64: the load of AtomicF64::fetch_add.
HBucketLoad(t) ==
    /\ hpc[t] = "bucket"
    /\ hKind = "float"
    /\ hcur' = [hcur EXCEPT ![t] = AtomicLoad(values[Idx(t)])]
    /\ hpc' = [hpc EXCEPT ![t] = "bcas"]
    /\ UNCHANGED <<hKind, buckets, values, count, sum, hval, started, obs, lastInc>>
    /\ UNCHANGED <<metricVars, concVars, localVars, regVars, timerVars, f64Vars, textVars>>

\* ... and its compare_and_swap; a failed one goes round the loop.
HBucketCas(t) ==
    /\ hpc[t] = "bcas"
    /\ LET i == Idx(t)
       IN  /\ values' = [values EXCEPT ![i] =
                           CompareAndSwap(@, hcur[t], F64AddBits(hcur[t], NumOne(hKind)))]
           /\ IF CasSucceeds(values[i], hcur[t])
              THEN /\ hpc' = [hpc EXCEPT ![t] = "count"]
                   /\ lastInc' = [val |-> hval[t], before |-> values, after |-> values']
              ELSE /\ hpc' = [hpc EXCEPT ![t] = "bucket"]
                   /\ UNCHANGED lastInc
    /\ hcur' = [hcur EXCEPT ![t] = ZeroWord]
    /\ UNCHANGED <<hKind, buckets, count, sum, hval, started, obs>>
    /\ UNCHANGED <<metricVars, concVars, localVars, regVars, timerVars, f64Vars, textVars>>

\* `self.count.inc()`: fetch_add(1) on the AtomicU64 count.
HCount(t) ==
    /\ hpc[t] = "count"
    /\ count' = IntFetchAdd(count, EncInt(1))
    /\ hpc' = [hpc EXCEPT ![t] = "sum"]
    /\ UNCHANGED <<hKind, buckets, values, sum, hval, hcur, started, obs, lastInc>>
    /\ UNCHANGED <<metricVars, concVars, localVars, regVars, timerVars, f64Vars, textVars>>

\* `self.sum.inc_by(val)` on an AtomicU64: one fetch_add; observe returns.
HSumInt(t) ==
    /\ hpc[t] = "sum"
    /\ hKind # "float"
    /\ sum' = IntFetchAdd(sum, DeltaNum(hKind, hval[t]))
    /\ hpc' = [hpc EXCEPT ![t] = "idle"]
    /\ hval' = [hval EXCEPT ![t] = 0]
    /\ UNCHANGED <<hKind, buckets, values, count, hcur, started, obs, lastInc>>
    /\ UNCHANGED <<metricVars, concVars, localVars, regVars, timerVars, f64Vars, textVars>>

\* `self.sum.inc_by(val)` on an AtomicF64: the load of AtomicF64::fetch_add.
HSumLoad(t) ==
    /\ hpc[t] = "sum"
    /\ hKind = "float"
    /\ hcur' = [hcur EXCEPT ![t] = AtomicLoad(sum)]
    /\ hpc' = [hpc EXCEPT ![t] = "scas"]
    /\ UNCHANGED <<hKind, buckets, values, count, sum, hval, started, obs, lastInc>>
    /\ UNCHANGED <<metricVars, concVars, localVars, regVars, timerVars, f64Vars, textVars>>

\* ... and its compare_and_swap; on success observe returns.
HSumCas(t) ==
    /\ hpc[t] = "scas"
    /\ sum' = CompareAndSwap(sum, hcur[t], F64AddBits(hcur[t], DeltaNum(hKind, hval[t])))
    /\ IF CasSucceeds(sum, hcur[t])
       THEN /\ hpc' = [hpc EXCEPT ![t] = "idle"]
            /\ hval' = [hval EXCEPT ![t] = 0]
       ELSE /\ hpc' = [hpc EXCEPT ![t] = "sum"]
            /\ UNCHANGED hval
    /\ hcur' = [hcur EXCEPT ![t] = ZeroWord]
    /\ UNCHANGED <<hKind, buckets, values, count, started, obs, lastInc>>
    /\ UNCHANGED <<metricVars, concVars, localVars, regVars, timerVars, f64Vars, textVars>>

NextHist ==
    \/ \E t \in Threads : HEnter(t)
    \/ \E t \in Threads : HBucketInt(t)
    \/ \E t \in Threads : HBucketLoad(t)
    \/ \E t \in Threads : HBucketCas(t)
    \/ \E t \in Threads : HCount(t)
    \/ \E t \in Threads : HSumInt(t)
    \/ \E t \in Threads : HSumLoad(t)
    \/ \E t \in Threads : HSumCas(t)

InitH == InitHist /\ IdleMetric /\ IdleConc /\ IdleLocal /\ IdleReg /\ IdleText /\ IdleTimer
        /\ IdleF64

SpecHist == InitH /\ [][NextHist]_vars

(***************************************************************************)
(* Properties of the histogram.                                            *)
(***************************************************************************)
\* No observe call is in progress.
HistQuiet == \A t \in Threads : hpc[t] = "idle"

RECURSIVE SumOver(_, _)
\* The sum of f[v] over the v in S.
SumOver(S, f) ==
    IF S = {} THEN 0
    ELSE LET v == CHOOSE x \in S : TRUE IN f[v] + SumOver(S \ {v}, f)

\* The cell contents of a bucket counter that stands at n.
CountBits(n) == IF hKind = "float" THEN F64ToBits(Fin(2 * n)) ELSE EncInt(n)

\* Bucket i has an upper bound >= v.
Covers(i, v) == ~NumLt(hKind, buckets[i], DeltaNum(hKind, v))

\* Bucket i is the first one in list order with an upper bound >= v.
FirstCover(i, v) == Covers(i, v) /\ \A j \in 1..(i - 1) : ~Covers(j, v)

\* How many of the observations made so far have a value in S.
Observed(S) == SumOver(S, obs)

\* Twice the sum of the observed values for floats (they are kept in halves), the
\* sum itself for integers.
ObservedSum == SumOver(ObsReps(hKind), [v \in ObsReps(hKind) |-> v * obs[v]])

\* The observations whose count / sum step is still to come.
CountPending == Cardinality({t \in Threads : hpc[t] \in {"bucket", "bcas", "count"}})

SumPending == SumOver(Threads, hval)

\* C8: observe(v) adds one to exactly one bucket counter, the first in list order
\* whose bound is >= v (a value equal to a bound lands in that bound's bucket), and
\* leaves the other bucket counters alone; so once the calls have returned each
\* counter holds the number of observations it was the first cover of, and bounds
\* [1, 5, +Inf] after 0.5, 3 and 100 hold [1, 1, 1].
C8_ObserveIncrementsFirstBucket ==
    /\ lastInc # NoInc =>
         \E i \in 1..Len(buckets) :
           /\ FirstCover(i, lastInc.val)
           /\ \E n \in 0..MaxObs : /\ lastInc.before[i] = CountBits(n)
                                   /\ lastInc.after[i] = CountBits(n + 1)
           /\ \A j \in 1..Len(buckets) : j # i => lastInc.after[j] = lastInc.before[j]
    /\ HistQuiet =>
         \A i \in 1..Len(buckets) :
           values[i] = CountBits(Observed({v \in ObsReps(hKind) : FirstCover(i, v)}))
    /\ ( /\ HistQuiet
         /\ buckets = <<Fin(2), Fin(10), PosInf>>
         /\ obs = [v \in ObsReps("float") |-> IF v \in {1, 6, 200} THEN 1 ELSE 0] )
       => values = <<CountBits(1), CountBits(1), CountBits(1)>>

\* Bounds [1, 5, +Inf] have seen 0.5, 3 and 100 and hold [1, 1, 1].
C8_Witness ==
    /\ HistQuiet
    /\ buckets = <<Fin(2), Fin(10), PosInf>>
    /\ obs = [v \in ObsReps("float") |-> IF v \in {1, 6, 200} THEN 1 ELSE 0]
    /\ values = <<F64ToBits(Fin(2)), F64ToBits(Fin(2)), F64ToBits(Fin(2))>>
    /\ lastInc # NoInc

\* C9: every observe(v) adds one to count and v to sum, whether or not a bucket
\* matched: count is the number of calls that have passed their count step, sum
\* the sum of the values of the calls that have returned, and the bucket counters
\* together hold only the observations that some bound covers.
C9_CountAndSumAlways ==
    /\ count = EncInt(started - CountPending)
    /\ sum = RefBits(hKind, IF hKind = "float" THEN Fin(ObservedSum - SumPending)
                                               ELSE ObservedSum - SumPending)
    /\ HistQuiet =>
         /\ count = EncInt(started)
         /\ sum = RefBits(hKind, IF hKind = "float" THEN Fin(ObservedSum) ELSE ObservedSum)
         /\ \A i \in 1..Len(buckets) :
              values[i] = CountBits(Observed({v \in ObsReps(hKind) : FirstCover(i, v)}))
         /\ \A i \in 1..Len(buckets) :
              (\A v \in ObsReps(hKind) : obs[v] > 0 => \A j \in 1..Len(buckets) : ~Covers(j, v))
                => values[i] = CountBits(0)

\* Only values above every bound were observed: no bucket moved, count and sum did.
C9_Witness ==
    /\ HistQuiet
    /\ started = MaxObs
    /\ \A v \in ObsReps(hKind) : obs[v] > 0 => \A j \in 1..Len(buckets) : ~Covers(j, v)
    /\ \A i \in 1..Len(buckets) : values[i] = CountBits(0)
    /\ count = EncInt(MaxObs)
    /\ sum # AtomicNew(hKind)

\* C10 as stated: each stored bucket counter is cumulative, values[i] being the
\* number of observations <= buckets[i].
C10_StoredBucketsCumulative ==
    HistQuiet =>
      \A i \in 1..Len(buckets) :
        values[i] = CountBits(Observed({v \in ObsReps(hKind) : Covers(i, v)}))

(***************************************************************************)
(* HistogramCore with clear and observe_bucket, and a LocalHistogram       *)
(* staged and flushed by its owner while other threads use the core        *)
(* (SpecLocal).  observe is the step-by-step observe of SpecHist.  Each    *)
(* AtomicNum call of clear and flush (one store or one fetch_add on one    *)
(* cell) is one step: the retry loop behind it on an AtomicF64 is the      *)
(* subject of SpecConc.                                                    *)
(***************************************************************************)
\* observe calls on the LocalHistogram, flush calls, clear calls on the core.
MaxStage == 2

MaxFlush == 2

MaxClear == 1

\* observe and observe_bucket calls made on the core beside its clear.
MaxDirect == 2

\* observe calls made on the core while the LocalHistogram is in use.
MaxBeside == 1

\* What a HistogramBuilder may hold when build is called: whether name and help
\* were given, and `buckets` (None, or the list given, in the order given).
BuilderReps(kind) ==
    LET lists == IF kind = "float"
                 THEN {<<>>, <<Fin(2), Fin(10), PosInf>>, <<Fin(10), Fin(2)>>,
                       <<Fin(2), Fin(2)>>}
                 ELSE {<<>>, <<EncInt(2), EncInt(4)>>}
    IN  {[name |-> n, help |-> h, buckets |-> [some |-> TRUE, list |-> l]] :
            n \in BOOLEAN, h \in BOOLEAN, l \in lists}
        \cup {[name |-> TRUE, help |-> TRUE, buckets |-> [some |-> FALSE, list |-> <<>>]]}

\* HistogramBuilder::build: MissingComponent without a name, a help, buckets, or
\* with an empty bucket list; otherwise Ok (the name and labels are taken to be
\* valid for Descriptor::new).  Nothing looks at the order of the bounds.
HistogramBuild(b) ==
    IF ~b.name \/ ~b.help \/ ~b.buckets.some THEN "MissingComponent"
    ELSE IF Len(b.buckets.list) = 0 THEN "MissingComponent"
    ELSE "ok"

\* The bucket lists of the histograms build returns.
BuiltBuckets(kind) ==
    {b.buckets.list : b \in {c \in BuilderReps(kind) : HistogramBuild(c) = "ok"}}

\* Atomic::Type::default()
NumDefault(kind) == NumZero(kind)

\* An addition that drops its right operand.
NumAddFirst(kind, a, b) == a

\* `+=` on Atomic::Type
NumAdd(kind, a, b) == IF kind = "float" THEN FAdd(a, b) ELSE AddU64(a, b)

\* A conversion that yields one whatever the integer.
NumFromU64One(kind, n) == NumOne(kind)

\* Num::from_u64: `int as f64`, `int as u64` (the float of a small whole number).
NumFromU64(kind, n) == IF kind = "float" THEN Fin(2 * n) ELSE EncInt(n)

\* The whole seconds a Timer may have measured (a timer dropped within its first
\* second), and the value each stands for among the staged values (halves for
\* f64).
TimerSecs(kind) == {0}

SecsKey(kind, n) == IF kind = "float" THEN 2 * n ELSE n

\* A reset that leaves a staged count of one behind.
LocalClearedKeepsCount(kind, n) ==
    [values |-> [i \in 1..n |-> NumDefault(kind)],
     count |-> EncInt(1),
     sum |-> NumDefault(kind)]

\* A LocalHistogram buffer with everything at its default.
LocalCleared(kind, n) ==
    [values |-> [i \in 1..n |-> NumDefault(kind)],
     count |-> ZeroWord,
     sum |-> NumDefault(kind)]

\* HistogramBuilder::build, HistogramCore::new and Histogram::local.
InitLocal ==
    /\ hKind \in {"uint", "float"}
    /\ buckets \in BuiltBuckets(hKind)
    /\ values = [i \in 1..Len(buckets) |-> AtomicNew(hKind)]
    /\ count = ZeroWord
    /\ sum = AtomicNew(hKind)
    /\ hpc = [t \in Threads |-> "idle"]
    /\ hval = [t \in Threads |-> 0]
    /\ hcur = [t \in Threads |-> ZeroWord]
    /\ started = 0
    /\ obs = [v \in ObsReps(hKind) |-> 0]
    /\ lastInc = NoInc
    /\ cidx = [t \in Threads |-> 0]
    /\ csnap = [t \in Threads |-> NoSnap]
    /\ clears = 0
    /\ pure = TRUE
    /\ lastOB = NoObserveBucket
    /\ lvalues = LocalCleared(hKind, Len(buckets)).values
    /\ lcount = LocalCleared(hKind, Len(buckets)).count
    /\ lsum = LocalCleared(hKind, Len(buckets)).sum
    /\ lpc = "idle"
    /\ lidx = 0
    /\ sobs = [v \in StageReps(hKind) |-> 0]
    /\ fobs = [v \in StageReps(hKind) |-> 0]
    /\ staged = 0
    /\ flushes = 0
    /\ emptyFlushes = 0
    /\ lastLocal = "new"

\* The thread that calls observe and observe_bucket on the core, and the one that
\* calls clear on it meanwhile.
Observers == {"t1"}

Clearers == {"t2"}

\* An observe_bucket that carries on like observe when no bucket matches.
ObserveBucketMissCounts == "count"

\* Where observe_bucket goes on when position() is None: it returns Err.
ObserveBucketMissNext == "idle"

\* HistogramCore::observe_bucket(val, bucket) is entered.  With no bound >= val
\* it returns Err(BucketNotFound) having touched nothing; otherwise it goes
\* through the steps of observe (values[idx].inc(), count.inc(), sum.inc_by(val))
\* and returns Ok.  `bucket` only appears in the error message.
HObserveBucket(t) ==
    /\ hpc[t] = "idle"
    /\ started < MaxObs
    /\ UNCHANGED <<hKind, buckets, values, count, sum, hcur, lastInc>>
    /\ \E v \in ObsReps(hKind) :
         IF Position(hKind, buckets, DeltaNum(hKind, v)) = 0
         THEN /\ lastOB' = [val |-> v, res |-> "BucketNotFound"]
              /\ hpc' = [hpc EXCEPT ![t] = ObserveBucketMissNext]
              /\ UNCHANGED <<hval, obs, started>>
         ELSE /\ lastOB' = [val |-> v, res |-> "ok"]
              /\ hpc' = [hpc EXCEPT ![t] = "bucket"]
              /\ hval' = [hval EXCEPT ![t] = v]
              /\ obs' = [obs EXCEPT ![v] = @ + 1]
              /\ started' = started + 1
    /\ UNCHANGED <<cidx, csnap, clears, pure, lvalues, lcount, lsum, lpc, lidx, sobs,
                   fobs, staged, flushes, emptyFlushes, lastLocal>>
    /\ UNCHANGED <<metricVars, concVars, regVars, timerVars, f64Vars, textVars>>

\* HistogramCore::clear is entered.
HClearEnter(t) ==
    /\ hpc[t] = "idle"
    /\ clears < MaxClear
    /\ hpc' = [hpc EXCEPT ![t] = "clear"]
    /\ cidx' = [cidx EXCEPT ![t] = 1]
    /\ clears' = clears + 1
    /\ csnap' = [csnap EXCEPT ![t] =
                   [started |-> started, flushes |-> flushes, clears |-> clears + 1,
                    alone |-> lpc = "idle" /\ \A u \in Threads : hpc[u] = "idle"]]
    /\ UNCHANGED <<hKind, buckets, values, count, sum, hval, hcur, started, obs,
                   lastInc>>
    /\ UNCHANGED <<pure, lastOB, lvalues, lcount, lsum, lpc, lidx, sobs, fobs, staged,
                   flushes, emptyFlushes, lastLocal>>
    /\ UNCHANGED <<metricVars, concVars, regVars, timerVars, f64Vars, textVars>>

\* `val.clear()` for the next bucket of the loop: one store of zero.
HClearBucket(t) ==
    /\ hpc[t] = "clear"
    /\ values' = [values EXCEPT ![cidx[t]] = AtomicClear(hKind, @)]
    /\ IF cidx[t] < Len(buckets)
       THEN /\ cidx' = [cidx EXCEPT ![t] = @ + 1]
            /\ UNCHANGED hpc
       ELSE /\ cidx' = [cidx EXCEPT ![t] = 0]
            /\ hpc' = [hpc EXCEPT ![t] = "ccount"]
    /\ UNCHANGED <<hKind, buckets, count, sum, hval, hcur, started, obs, lastInc>>
    /\ UNCHANGED <<csnap, clears, pure, lastOB, lvalues, lcount, lsum, lpc, lidx, sobs,
                   fobs, staged, flushes, emptyFlushes, lastLocal>>
    /\ UNCHANGED <<metricVars, concVars, regVars, timerVars, f64Vars, textVars>>

\* `self.count.clear()`
HClearCount(t) ==
    /\ hpc[t] = "ccount"
    /\ count' = AtomicClear("uint", count)
    /\ hpc' = [hpc EXCEPT ![t] = "csum"]
    /\ UNCHANGED <<hKind, buckets, values, sum, hval, hcur, started, obs, lastInc>>
    /\ UNCHANGED localVars
    /\ UNCHANGED <<metricVars, concVars, regVars, timerVars, f64Vars, textVars>>

\* Whether the clear of thread t ran with no other call on the core between its
\* entry and now.
ClearedAlone(t) ==
    /\ csnap[t].alone
    /\ csnap[t].started = started
    /\ csnap[t].flushes = flushes
    /\ csnap[t].clears = clears
    /\ lpc = "idle"
    /\ \A u \in Threads \ {t} : hpc[u] = "idle"

\* `self.sum.clear()`; clear returns.  After a clear that ran alone the core
\* holds no observation.
HClearSum(t) ==
    /\ hpc[t] = "csum"
    /\ sum' = AtomicClear(hKind, sum)
    /\ hpc' = [hpc EXCEPT ![t] = "idle"]
    /\ pure' = ClearedAlone(t)
    /\ obs' = IF ClearedAlone(t) THEN [v \in ObsReps(hKind) |-> 0] ELSE obs
    /\ csnap' = [csnap EXCEPT ![t] = NoSnap]
    /\ UNCHANGED <<hKind, buckets, values, count, hval, hcur, started, lastInc>>
    /\ UNCHANGED <<cidx, clears, lastOB, lvalues, lcount, lsum, lpc, lidx, sobs, fobs,
                   staged, flushes, emptyFlushes, lastLocal>>
    /\ UNCHANGED <<metricVars, concVars, regVars, timerVars, f64Vars, textVars>>

\* InnerLocalHist::observe(val), with v the value's place among the observed
\* values: the first bucket with val <= bound gets `+= val`, count `+= 1`, sum
\* `+= val`.  Nothing of the core is touched.
LocalObserve(v, val) ==
    /\ lpc = "idle"
    /\ staged < MaxStage
    /\ LET idx == Position(hKind, buckets, val)
       IN  lvalues' = IF idx # 0
                      THEN [lvalues EXCEPT ![idx] = NumAdd(hKind, @, val)]
                      ELSE lvalues
    /\ lcount' = AddU64(lcount, EncInt(1))
    /\ lsum' = NumAdd(hKind, lsum, val)
    /\ sobs' = [sobs EXCEPT ![v] = @ + 1]
    /\ staged' = staged + 1
    /\ lastLocal' = "observe"
    /\ UNCHANGED histVars
    /\ UNCHANGED <<cidx, csnap, clears, pure, lastOB, lpc, lidx, fobs, flushes,
                   emptyFlushes>>
    /\ UNCHANGED <<metricVars, concVars, regVars, timerVars, f64Vars, textVars>>

\* The values LocalHistogram::observe is called with: 3.0 and 100.0 for f64
\* (in halves), 2 and 5 for u64.
LocalReps(kind) == IF kind = "float" THEN {6, 200} ELSE {2, 5}

\* LocalHistogram::observe(val)
LObserve == \E v \in LocalReps(hKind) : LocalObserve(v, DeltaNum(hKind, v))

\* A Timer on the LocalHistogram is dropped (or observe()d): Observable::observe
\* with the elapsed whole seconds, through Num::from_u64.
LTimerDrop ==
    \E n \in TimerSecs(hKind) : LocalObserve(SecsKey(hKind, n), NumFromU64(hKind, n))

\* LocalHistogram::clear: the staged observations are dropped.
LClear ==
    /\ lpc = "idle"
    /\ lastLocal # "clear"
    /\ lvalues' = LocalCleared(hKind, Len(buckets)).values
    /\ lcount' = LocalCleared(hKind, Len(buckets)).count
    /\ lsum' = LocalCleared(hKind, Len(buckets)).sum
    /\ sobs' = [v \in StageReps(hKind) |-> 0]
    /\ lastLocal' = "clear"
    /\ UNCHANGED histVars
    /\ UNCHANGED <<cidx, csnap, clears, pure, lastOB, lpc, lidx, fobs, staged, flushes,
                   emptyFlushes>>
    /\ UNCHANGED <<metricVars, concVars, regVars, timerVars, f64Vars, textVars>>

\* A flush that starts its loop whatever the staged count is.
FlushEmptyLoops == "bucket"

\* Where flush goes on when `self.count == 0`: it returns.
FlushEmptyNext == "idle"

\* InnerLocalHist::flush is entered: `if self.count == 0 { return; }`.
LFlushEnter ==
    /\ lpc = "idle"
    /\ flushes < MaxFlush
    /\ flushes' = flushes + 1
    /\ IF lcount = ZeroWord
       THEN /\ lpc' = FlushEmptyNext
            /\ emptyFlushes' = emptyFlushes + 1
            /\ UNCHANGED pure
       ELSE /\ lpc' = "bucket"
            /\ pure' = FALSE
            /\ UNCHANGED emptyFlushes
    /\ lidx' = IF lpc' = "idle" THEN 0 ELSE 1
    /\ lastLocal' = IF lpc' = "idle" THEN "flush_empty" ELSE lastLocal
    /\ UNCHANGED histVars
    /\ UNCHANGED <<cidx, csnap, clears, lastOB, lvalues, lcount, lsum, sobs, fobs,
                   staged>>
    /\ UNCHANGED <<metricVars, concVars, regVars, timerVars, f64Vars, textVars>>

\* `self.histogram.core.values[i].inc_by(*val)` for the next bucket of the loop.
LFlushBucket ==
    /\ lpc = "bucket"
    /\ values' = [values EXCEPT ![lidx] = AtomicIncBy(hKind, @, lvalues[lidx])]
    /\ IF lidx < Len(buckets)
       THEN lidx' = lidx + 1 /\ UNCHANGED lpc
       ELSE lidx' = 0 /\ lpc' = "count"
    /\ UNCHANGED <<hKind, buckets, count, sum, hpc, hval, hcur, started, obs, lastInc>>
    /\ UNCHANGED <<cidx, csnap, clears, pure, lastOB, lvalues, lcount, lsum, sobs, fobs,
                   staged, flushes, emptyFlushes, lastLocal>>
    /\ UNCHANGED <<metricVars, concVars, regVars, timerVars, f64Vars, textVars>>

\* `self.histogram.core.count.inc_by(self.count)`
LFlushCount ==
    /\ lpc = "count"
    /\ count' = AtomicIncBy("uint", count, lcount)
    /\ lpc' = "sum"
    /\ UNCHANGED <<hKind, buckets, values, sum, hpc, hval, hcur, started, obs, lastInc>>
    /\ UNCHANGED <<cidx, csnap, clears, pure, lastOB, lvalues, lcount, lsum, lidx, sobs,
                   fobs, staged, flushes, emptyFlushes, lastLocal>>
    /\ UNCHANGED <<metricVars, concVars, regVars, timerVars, f64Vars, textVars>>

\* `self.histogram.core.sum.inc_by(self.sum); self.clear();` and flush returns.
LFlushSum ==
    /\ lpc = "sum"
    /\ sum' = AtomicIncBy(hKind, sum, lsum)
    /\ lvalues' = LocalCleared(hKind, Len(buckets)).values
    /\ lcount' = LocalCleared(hKind, Len(buckets)).count
    /\ lsum' = LocalCleared(hKind, Len(buckets)).sum
    /\ fobs' = [v \in StageReps(hKind) |-> fobs[v] + sobs[v]]
    /\ sobs' = [v \in StageReps(hKind) |-> 0]
    /\ lpc' = "idle"
    /\ lastLocal' = "flush"
    /\ UNCHANGED <<hKind, buckets, values, count, hpc, hval, hcur, started, obs, lastInc>>
    /\ UNCHANGED <<cidx, csnap, clears, pure, lastOB, lidx, staged, flushes,
                   emptyFlushes>>
    /\ UNCHANGED <<metricVars, concVars, regVars, timerVars, f64Vars, textVars>>

\* HistogramCore::observe by a thread other than the owner of the LocalHistogram.
HEnterBeside(t) == started < MaxBeside /\ HEnter(t)

\* HistogramCore::observe and observe_bucket by a thread while another may clear.
HEnterDirect(t) == started < MaxDirect /\ HEnter(t)

HObserveBucketDirect(t) == started < MaxDirect /\ HObserveBucket(t)

\* The core used directly: observe and observe_bucket by one thread, clear by
\* another.
NextCore ==
    \/ \E t \in Observers : HEnterDirect(t)
    \/ \E t \in Observers : HBucketInt(t)
    \/ \E t \in Observers : HBucketLoad(t)
    \/ \E t \in Observers : HBucketCas(t)
    \/ \E t \in Observers : HCount(t)
    \/ \E t \in Observers : HSumInt(t)
    \/ \E t \in Observers : HSumLoad(t)
    \/ \E t \in Observers : HSumCas(t)
    \/ \E t \in Observers : HObserveBucketDirect(t)
    \/ \E t \in Clearers : HClearEnter(t)
    \/ \E t \in Clearers : HClearBucket(t)
    \/ \E t \in Clearers : HClearCount(t)
    \/ \E t \in Clearers : HClearSum(t)

\* The LocalHistogram staged and flushed by its owner while a thread observes on
\* the core.
NextLocal ==
    \/ \E t \in Observers : HEnterBeside(t)
    \/ \E t \in Observers : HBucketInt(t)
    \/ \E t \in Observers : HBucketLoad(t)
    \/ \E t \in Observers : HBucketCas(t)
    \/ \E t \in Observers : HCount(t)
    \/ \E t \in Observers : HSumInt(t)
    \/ \E t \in Observers : HSumLoad(t)
    \/ \E t \in Observers : HSumCas(t)
    \/ LObserve
    \/ LTimerDrop
    \/ LClear
    \/ LFlushEnter
    \/ LFlushBucket
    \/ LFlushCount
    \/ LFlushSum

InitL == InitLocal /\ IdleMetric /\ IdleConc /\ IdleReg /\ IdleText /\ IdleTimer
        /\ IdleF64

SpecCore == InitL /\ [][NextCore]_vars

SpecLocal == InitL /\ [][NextLocal]_vars

(***************************************************************************)
(* Properties of the core with clear and observe_bucket (SpecCore) and of  *)
(* the LocalHistogram (SpecLocal).                                         *)
(***************************************************************************)
\* No call is in progress on the core or on the LocalHistogram.
CoreQuiet == HistQuiet /\ lpc = "idle"

\* The shared cells of the core.
core == <<values, count, sum>>

\* How many observations the multiset o over the values K holds, and their sum
\* (in halves for f64).
Total(K, o) == SumOver(K, o)

TotalSum(K, o) == SumOver(K, [v \in K |-> v * o[v]])

\* The core that calling observe for each observation of o, on a freshly
\* constructed histogram with these bounds, leaves: each observation is counted
\* once, in the first bucket that covers it, once in count, and added to sum.
FreshAfter(K, o) ==
    <<[i \in 1..Len(buckets) |-> CountBits(Total({v \in K : FirstCover(i, v)}, o))],
      EncInt(Total(K, o)),
      RefBits(hKind, IF hKind = "float" THEN Fin(TotalSum(K, o)) ELSE TotalSum(K, o))>>

\* count < values[i], count being a u64 and values[i] an Atomic::Type.
CountBelow(i) ==
    IF hKind = "float"
    THEN FLt(Fin(2 * count[1]), F64FromBits(values[i]))
    ELSE LtU64(count, values[i])

\* C11 as stated: in every reachable state, the states between the atomic steps
\* of observe and flush included, count >= values[i] for every bucket i.
C11_CountAtLeastEveryBucket == \A i \in 1..Len(buckets) : ~CountBelow(i)

\* C12 as stated: the bounds of every histogram that build returned are strictly
\* ascending.
C12_BuiltBucketsStrictlyAscending ==
    \A i \in 1..(Len(buckets) - 1) : NumLt(hKind, buckets[i], buckets[i + 1])

\* C13: when a clear() that ran with no other call on the core has returned,
\* every bucket counter, count and sum are zero; and the observe calls made after
\* it leave the core as they leave a freshly constructed histogram with the same
\* bounds.
C13_ClearThenObserveAsFresh ==
    /\ (CoreQuiet /\ pure /\ clears > 0 /\ Total(ObsReps(hKind), obs) = 0)
         => core = <<[i \in 1..Len(buckets) |-> AtomicNew(hKind)], ZeroWord,
                     AtomicNew(hKind)>>
    /\ (CoreQuiet /\ pure /\ clears > 0) => core = FreshAfter(ObsReps(hKind), obs)

\* One observation before a clear that ran alone, one after it.
C13_Witness ==
    /\ CoreQuiet
    /\ pure
    /\ clears = 1
    /\ started = MaxDirect
    /\ Total(ObsReps(hKind), obs) = 1
    /\ count = EncInt(1)

\* C14: observe_bucket(val, _) returns BucketNotFound exactly when no bound is
\* >= val, and then no bucket counter, count or sum changes; otherwise it returns
\* Ok and counts as an observe(val) does.
C14_ObserveBucketErrIffNoBound ==
    /\ lastOB.res # "none" =>
         (lastOB.res = "BucketNotFound" <=> \A i \in 1..Len(buckets) : ~Covers(i, lastOB.val))
    /\ clears = 0 => count = EncInt(started - CountPending)
    /\ (clears = 0 /\ CoreQuiet) => core = FreshAfter(ObsReps(hKind), obs)

\* An observe_bucket above every bound, after calls that were counted.
C14_Witness ==
    /\ CoreQuiet
    /\ clears = 0
    /\ lastOB.res = "BucketNotFound"
    /\ started = MaxDirect
    /\ count = EncInt(MaxDirect)

\* C15: a flush that finds no staged observation (count == 0) returns at once
\* and writes nothing to the core: bucket counters, count and sum are unchanged.
C15_EmptyFlushWritesNothing ==
    [][(flushes' # flushes /\ lcount = ZeroWord) => (lpc' = "idle" /\ core' = core)]_vars

\* The only flush so far found nothing staged, on a core that holds an
\* observation.
C15_Witness ==
    /\ lastLocal = "flush_empty"
    /\ flushes = 1
    /\ emptyFlushes = 1
    /\ HistQuiet
    /\ count = EncInt(MaxBeside)

\* The observations flushed so far, the staged count included once the flush in
\* progress has added it to the core's count.
CountFlushed ==
    Total(StageReps(hKind), fobs)
        + (IF lpc = "sum" THEN Total(StageReps(hKind), sobs) ELSE 0)

\* C16: each flush adds the number of staged observations to the core's count and
\* their sum to the core's sum, whatever a concurrent observe does meanwhile:
\* count is the observes past their count step plus the observations flushed,
\* sum the sum of the values observed and flushed.
C16_FlushAddsCountAndSum ==
    /\ count = EncInt(started - CountPending + CountFlushed)
    /\ LET total == ObservedSum - SumPending + TotalSum(StageReps(hKind), fobs)
       IN  sum = RefBits(hKind, IF hKind = "float" THEN Fin(total) ELSE total)

\* Everything staged has been flushed while an observe on the core is between
\* its count step and its sum step.
C16_Witness ==
    /\ lpc = "idle"
    /\ Total(StageReps(hKind), fobs) = MaxStage
    /\ fobs[0] = 0
    /\ \E t \in Observers : hpc[t] = "sum"
    /\ count = EncInt(MaxStage + MaxBeside)

\* The observations made on the core directly together with those flushed.
AllObserved ==
    [v \in StageReps(hKind) |-> fobs[v] + (IF v \in ObsReps(hKind) THEN obs[v] ELSE 0)]

\* C17 as stated: once everything staged has been flushed, the core is what
\* calling observe for the same values leaves: each staged observation has added
\* exactly one to the first bucket that covers it.
C17_FlushEqualsDirectObserve ==
    (CoreQuiet /\ Total(StageReps(hKind), sobs) = 0)
        => core = FreshAfter(StageReps(hKind), AllObserved)

\* What is staged, as the local count and sum.
StagedCount == EncInt(Total(StageReps(hKind), sobs))

StagedSum ==
    LET total == TotalSum(StageReps(hKind), sobs)
    IN  IF hKind = "float" THEN Fin(total) ELSE EncInt(total)

\* C18: LocalHistogram::observe, and a Timer dropped on a LocalHistogram, change
\* the local buffer only: the core's bucket counters, count and sum are the same
\* after the call, and the observation is held in the staged count and sum.
C18_LocalObserveLeavesCore ==
    /\ [](lcount = StagedCount /\ lsum = StagedSum)
    /\ [][staged' # staged => core' = core]_vars

\* Observations and a timer are staged, nothing has been flushed, and the core
\* holds only what was observed on it directly.
C18_Witness ==
    /\ staged = MaxStage
    /\ flushes = 0
    /\ sobs[0] > 0
    /\ Total(StageReps(hKind), sobs) = MaxStage
    /\ HistQuiet
    /\ core = FreshAfter(ObsReps(hKind), obs)
    /\ count = EncInt(MaxBeside)

\* C19: when flush has returned the local buffer is reset (staged count 0, staged
\* sum 0, every staged bucket value 0), so a flush that follows at once writes
\* nothing to the core.
C19_FlushResetsLocal ==
    /\ []((lpc = "idle" /\ lastLocal \in {"flush", "flush_empty"})
            => /\ lcount = ZeroWord
               /\ lsum = NumDefault(hKind)
               /\ \A i \in 1..Len(buckets) : lvalues[i] = NumDefault(hKind))
    /\ [][(flushes' # flushes /\ lastLocal \in {"flush", "flush_empty"})
            => (lpc' = "idle" /\ core' = core)]_vars

\* A flush of everything staged, then at once a flush that found nothing.
C19_Witness ==
    /\ lastLocal = "flush_empty"
    /\ flushes = 2
    /\ emptyFlushes = 1
    /\ staged = MaxStage
    /\ Total(StageReps(hKind), fobs) = MaxStage

(***************************************************************************)
(* RegistryBuilder: register, register_all and build.  A collector is its  *)
(* descriptor's name (a string, as its character codes) and label list.    *)
(***************************************************************************)

\* The number of collectors passed to one builder.
MaxReg == 3

NameA == <<97>>
NameAB == <<97, 98>>
NameB == <<98>>

LabelX == [label |-> "x", value |-> "1"]
LabelY == [label |-> "y", value |-> "1"]

Collectors ==
    {[name |-> NameA,  labels |-> <<>>],
     [name |-> NameA,  labels |-> <<LabelX, LabelY>>],
     [name |-> NameA,  labels |-> <<LabelY, LabelX>>],
     [name |-> NameAB, labels |-> <<>>],
     [name |-> NameB,  labels |-> <<>>]}

\* The lists of at most n collectors.
CollectorLists(n) == UNION {[1..k -> Collectors] : k \in 0..n}

\* `a.cmp(b) == Less` on strings: bytewise lexicographic order.
RECURSIVE NameLess(_, _)
NameLess(a, b) ==
    IF b = <<>> THEN FALSE
    ELSE IF a = <<>> THEN TRUE
    ELSE IF Head(a) # Head(b) THEN Head(a) < Head(b)
    ELSE NameLess(Tail(a), Tail(b))

\* Same name, and the same labels in any order.
SameCollectorAnyOrder(coll, input) ==
    /\ coll.name = input.name
    /\ {coll.labels[i] : i \in 1..Len(coll.labels)}
           = {input.labels[i] : i \in 1..Len(input.labels)}

\* The closure of build's loop: same name and same label list.
SameCollector(coll, input) ==
    coll.name = input.name /\ coll.labels = input.labels

\* The position of the first input that equals the input just before it, 0 if none.
FirstDuplicateAdjacent(list) ==
    LET dup == {i \in 2..Len(list) : SameCollector(list[i - 1], list[i])}
    IN  IF dup = {} THEN 0 ELSE CHOOSE i \in dup : \A k \in dup : i <= k

\* The position of the first input that an earlier input equals, 0 if none.
FirstDuplicate(list) ==
    LET dup == {i \in 1..Len(list) : \E j \in 1..(i - 1) : SameCollector(list[j], list[i])}
    IN  IF dup = {} THEN 0 ELSE CHOOSE i \in dup : \A k \in dup : i <= k

\* The list as it was registered.
SortKeepsOrder(list) == {list}

\* sort_unstable_by on the names: any arrangement of the list in which no
\* name stands before a smaller one; equal names may come out in any order.
SortUnstableByName(list) ==
    LET n == Len(list)
        perms == {p \in [1..n -> 1..n] : \A i, j \in 1..n : i # j => p[i] # p[j]}
        arranged == {[i \in 1..n |-> list[p[i]]] : p \in perms}
    IN  {s \in arranged : \A i, j \in 1..n : i < j => ~NameLess(s[j].name, s[i].name)}

BuildFailed(kind, name) == [kind |-> kind, name |-> name, inputs |-> <<>>]

\* What build answers for Some(empty list).
EmptyListBuilds == BuildFailed("ok", <<>>)

EmptyListResult == BuildFailed("MissingComponent", <<>>)

\* The results build can return for `inputs`.
BuildResults(inp) ==
    IF ~inp.some THEN {BuildFailed("MissingComponent", <<>>)}
    ELSE IF inp.list = <<>> THEN {EmptyListResult}
    ELSE LET d == FirstDuplicate(inp.list)
         IN  IF d # 0
             THEN {BuildFailed("DuplicatedCollector", inp.list[d].name)}
             ELSE {[kind |-> "ok", name |-> <<>>, inputs |-> s] :
                       s \in SortUnstableByName(inp.list)}

\* RegistryBuilder::new().
InitReg == IdleReg

\* builder.register(input)
Register ==
    /\ rResult = Unbuilt
    /\ Len(rLog) < MaxReg
    /\ \E input \in Collectors :
          /\ rInputs' = [some |-> TRUE, list |-> Append(rInputs.list, input)]
          /\ rLog' = Append(rLog, input)
    /\ UNCHANGED <<rResult, rOther, rValues, rCollected, rCollects>>
    /\ UNCHANGED <<metricVars, concVars, histVars, localVars, textVars, timerVars, f64Vars>>

\* builder.register_all(inputs): the list replaces what was there.
RegisterAll ==
    /\ rResult = Unbuilt
    /\ \E inputs \in CollectorLists(MaxReg - Len(rLog)) :
          /\ rInputs' = [some |-> TRUE, list |-> inputs]
          /\ rLog' = rLog \o inputs
    /\ UNCHANGED <<rResult, rOther, rValues, rCollected, rCollects>>
    /\ UNCHANGED <<metricVars, concVars, histVars, localVars, textVars, timerVars, f64Vars>>

\* The collectors a Registry holds.
Held(inputs) == {inputs[i] : i \in 1..Len(inputs)}

\* builder.build(); the metrics of the collectors are at zero then.
Build ==
    /\ rResult = Unbuilt
    /\ rResult' \in BuildResults(rInputs)
    /\ rValues' = [c \in Held(rResult'.inputs) |-> 0]
    /\ UNCHANGED <<rInputs, rLog, rOther, rCollected, rCollects>>
    /\ UNCHANGED <<metricVars, concVars, histVars, localVars, textVars, timerVars, f64Vars>>

NextReg ==
    \/ Register
    \/ RegisterAll
    \/ Build

InitR == InitReg /\ IdleMetric /\ IdleConc /\ IdleHist /\ IdleLocal /\ IdleText /\ IdleTimer
        /\ IdleF64

SpecReg == InitR /\ [][NextReg]_vars

(***************************************************************************)
(* Two builders given the same collectors in two orders.                   *)
(***************************************************************************)

\* The orders a list can be given in.
Arrangements(list) ==
    LET n == Len(list)
        perms == {p \in [1..n -> 1..n] : \A i, j \in 1..n : i # j => p[i] # p[j]}
    IN  {[i \in 1..n |-> list[p[i]]] : p \in perms}

\* RegistryBuilder::new().register_all(list).build() for another order of the
\* collectors the first Registry was built from.
BuildOther ==
    /\ rResult.kind = "ok"
    /\ rOther.result = Unbuilt
    /\ \E list \in Arrangements(rInputs.list) :
          \E r \in BuildResults([some |-> TRUE, list |-> list]) :
             rOther' = [list |-> list, result |-> r]
    /\ UNCHANGED <<rInputs, rLog, rResult, rValues, rCollected, rCollects>>
    /\ UNCHANGED <<metricVars, concVars, histVars, localVars, textVars, timerVars, f64Vars>>

NextPair ==
    \/ Register
    \/ RegisterAll
    \/ Build
    \/ BuildOther

SpecPair == InitR /\ [][NextPair]_vars

(***************************************************************************)
(* Registry::collect while the metrics of the collectors change.           *)
(***************************************************************************)

\* The number of collect calls on one Registry.
MaxCollect == 2

\* The values a collector's metric is set to.
ValueReps == {0, 12}

\* The decimal digits of n, as character codes: what `to_string` gives for an
\* unsigned integer.
RECURSIVE Decimal(_)
Decimal(n) ==
    IF n < 10 THEN <<48 + n>> ELSE Append(Decimal(n \div 10), 48 + (n % 10))

\* input.collect(): the collector's value now, as text.
CollectorCollect(c) == Decimal(rValues[c])

\* Metric::new(value, descriptor)
MetricNew(v, c) == [name |-> c.name, labels |-> c.labels, value |-> v]

\* What collect pushes for the collector at position i.
CollectFirstOnly(inputs, i) == MetricNew(CollectorCollect(inputs[1]), inputs[1])

CollectAt(inputs, i) == MetricNew(CollectorCollect(inputs[i]), inputs[i])

\* The application sets the metric of a registered collector.
CollectorSet ==
    /\ rResult.kind = "ok"
    /\ \E c \in DOMAIN rValues : \E v \in ValueReps \ {rValues[c]} :
          rValues' = [rValues EXCEPT ![c] = v]
    /\ UNCHANGED <<rInputs, rLog, rResult, rOther, rCollected, rCollects>>
    /\ UNCHANGED <<metricVars, concVars, histVars, localVars, textVars, timerVars, f64Vars>>

\* registry.collect()
Collect ==
    /\ rResult.kind = "ok"
    /\ rCollects < MaxCollect
    /\ rCollected' = [i \in 1..Len(rResult.inputs) |-> CollectAt(rResult.inputs, i)]
    /\ rCollects' = rCollects + 1
    /\ UNCHANGED <<rInputs, rLog, rResult, rOther, rValues>>
    /\ UNCHANGED <<metricVars, concVars, histVars, localVars, textVars, timerVars, f64Vars>>

NextCollect ==
    \/ Register
    \/ RegisterAll
    \/ Build
    \/ CollectorSet
    \/ Collect

SpecCollect == InitR /\ [][NextCollect]_vars

(***************************************************************************)
(* Label::new and valid_label_name.  A string is the sequence of its       *)
(* character codes.                                                        *)
(***************************************************************************)

\* The length of the label names tried exhaustively.
MaxNameLen == 3

Underscore == 95

\* "le"
Le == <<108, 101>>

\* 'a', 'b', 'e', 'l', '_', '1' and ' '.
NameChars == {97, 98, 101, 108, Underscore, 49, 32}

\* "abc_123", "_private", "1abc" and "__a".
LongNames ==
    {<<97, 98, 99, 95, 49, 50, 51>>,
     <<95, 112, 114, 105, 118, 97, 116, 101>>,
     <<49, 97, 98, 99>>,
     <<95, 95, 97>>}

LabelNames == UNION {[1..k -> NameChars] : k \in 0..MaxNameLen} \cup LongNames

\* char::is_ascii_alphabetic and char::is_ascii_alphanumeric
IsAsciiAlphabetic(c) == c \in 65..90 \/ c \in 97..122

IsAsciiAlphanumeric(c) == IsAsciiAlphabetic(c) \/ c \in 48..57

\* The test on the second character as written: `is_ascii_alphabetic() || next != '_'`.
SecondCharOk(c) == IsAsciiAlphabetic(c) \/ c # Underscore

\* valid_label_name: the first character, then the second, then the rest.
ValidLabelName(label) ==
    /\ label # <<>>
    /\ label # Le
    /\ IsAsciiAlphabetic(label[1]) \/ label[1] = Underscore
    /\ Len(label) >= 2 => SecondCharOk(label[2])
    /\ \A i \in 3..Len(label) : IsAsciiAlphanumeric(label[i]) \/ label[i] = Underscore

InitLabel ==
    /\ tArg \in LabelNames
    /\ tRet = NotCalled

\* Label::new(label, value)
LabelNew ==
    /\ tRet = NotCalled
    /\ tRet' = IF ValidLabelName(tArg) THEN [kind |-> "ok"]
                ELSE [kind |-> "InvalidLabelName"]
    /\ UNCHANGED <<tArg, metricVars, concVars, histVars, localVars, regVars, timerVars, f64Vars>>

NextLabel == LabelNew

InitT == InitLabel /\ IdleMetric /\ IdleConc /\ IdleHist /\ IdleLocal /\ IdleReg /\ IdleTimer
        /\ IdleF64

SpecLabel == InitT /\ [][NextLabel]_vars

(***************************************************************************)
(* The help text of a metric: Descriptor::new (histograms and groups) and  *)
(* Labeled::new (counters and gauges).                                     *)
(***************************************************************************)

\* The length of the help texts tried.
MaxHelpLen == 3

Backslash == 92

Newline == 10

LetterN == 110

\* A backslash, a newline, 'n' and 'a'.
HelpChars == {Backslash, Newline, LetterN, 97}

HelpTexts == UNION {[1..k -> HelpChars] : k \in 0..MaxHelpLen}

\* "a" and "1".
MetricNames == {<<97>>, <<49>>}

\* valid_metric_name
ValidMetricName(metric) ==
    /\ metric # <<>>
    /\ IsAsciiAlphabetic(metric[1]) \/ metric[1] = Underscore \/ metric[1] = 58
    /\ \A i \in 2..Len(metric) :
          IsAsciiAlphanumeric(metric[i]) \/ metric[i] = Underscore \/ metric[i] = 58

\* str::replace for a pattern of one character.
RECURSIVE Replace(_, _, _)
Replace(str, from, to) ==
    IF str = <<>> THEN <<>>
    ELSE (IF Head(str) = from THEN to ELSE <<Head(str)>>) \o Replace(Tail(str), from, to)

\* `.replace("\\", "\\\\").replace("\n", "\\n")`
EscapeHelp(help) ==
    Replace(Replace(help, Backslash, <<Backslash, Backslash>>),
            Newline, <<Backslash, LetterN>>)

InitHelp ==
    /\ tArg \in [ctor : {"Descriptor", "Labeled"}, name : MetricNames, help : HelpTexts]
    /\ tRet = NotCalled

\* Descriptor::new(name, help, labels)
DescriptorNew ==
    /\ tArg.ctor = "Descriptor"
    /\ tRet = NotCalled
    /\ tRet' = IF ~ValidMetricName(tArg.name) THEN [kind |-> "InvalidMetricName"]
                ELSE [kind |-> "ok", name |-> tArg.name, help |-> EscapeHelp(tArg.help)]
    /\ UNCHANGED <<tArg, metricVars, concVars, histVars, localVars, regVars, timerVars, f64Vars>>

\* Labeled::new(data, name, description), as UintCounter::new and the other
\* counters and gauges call it.
LabeledNew ==
    /\ tArg.ctor = "Labeled"
    /\ tRet = NotCalled
    /\ tRet' = IF ~ValidMetricName(tArg.name) THEN [kind |-> "InvalidMetricName"]
                ELSE [kind |-> "ok", name |-> tArg.name, help |-> tArg.help]
    /\ UNCHANGED <<tArg, metricVars, concVars, histVars, localVars, regVars, timerVars, f64Vars>>

NextHelp ==
    \/ DescriptorNew
    \/ LabeledNew

InitD == InitHelp /\ IdleMetric /\ IdleConc /\ IdleHist /\ IdleLocal /\ IdleReg /\ IdleTimer
        /\ IdleF64

SpecHelp == InitD /\ [][NextHelp]_vars

(***************************************************************************)
(* The text rendering of a counter: Exportable::export of the counter      *)
(* types (export.rs) and Metric::text_format of a collected counter        *)
(* (registry.rs).                                                          *)
(***************************************************************************)

\* The number of inc calls before the rendering, and of labels on a counter.
MaxIncs == 2

MaxLabels == 2

\* "# HELP " and "# TYPE "
HelpPrefix == <<35, 32, 72, 69, 76, 80, 32>>

TypePrefix == <<35, 32, 84, 89, 80, 69, 32>>

\* "counter"
CounterKind == <<99, 111, 117, 110, 116, 101, 114>>

Space == 32

Comma == 44

Quote == 34

\* "=", "{" and "}"
EqualsSign == <<61>>

OpenBrace == <<123>>

CloseBrace == <<125>>

\* "http_requests_total" and "c"
CounterNames ==
    {<<104, 116, 116, 112, 95, 114, 101, 113, 117, 101, 115, 116, 115, 95, 116, 111, 116, 97, 108>>,
     <<99>>}

\* "Total requests" and "h"
CounterHelps == {<<84, 111, 116, 97, 108, 32, 114, 101, 113, 117, 101, 115, 116, 115>>, <<104>>}

\* x="1", y="v" and z="a b"
TextLabels ==
    {[label |-> <<120>>, value |-> <<49>>],
     [label |-> <<121>>, value |-> <<118>>],
     [label |-> <<122>>, value |-> <<97, 32, 98>>]}

TextLabelLists == UNION {[1..k -> TextLabels] : k \in 0..MaxLabels}

\* `{:?}` of a string: in double quotes, with a backslash before each double
\* quote and backslash and a newline written as \n.
DebugStr(str) ==
    <<Quote>> \o Replace(Replace(Replace(str, Backslash, <<Backslash, Backslash>>),
                                 Quote, <<Backslash, Quote>>),
                         Newline, <<Backslash, LetterN>>) \o <<Quote>>

\* The loop of Labeled::export over labels i..: label=value, then a comma unless
\* it is the last.
RECURSIVE ExportLabels(_, _)
ExportLabels(labels, i) ==
    IF i > Len(labels) THEN <<>>
    ELSE labels[i].label \o EqualsSign \o DebugStr(labels[i].value)
            \o (IF i # Len(labels) THEN <<Comma>> ELSE <<>>)
            \o ExportLabels(labels, i + 1)

\* <Labeled<T> as Exportable>::export for a Counter<AtomicU64>.
LabeledExport(c) ==
    HelpPrefix \o c.help \o <<Newline>>
        \o TypePrefix \o CounterKind \o <<Newline>>
        \o c.name
        \o (IF c.labels # <<>>
            THEN OpenBrace \o ExportLabels(c.labels, 1) \o CloseBrace \o <<Space>>
            ELSE <<Space>>)
        \o Decimal(c.incs)
        \o <<Newline>>

\* The loop of text_format over all labels but the last: label=value and a comma.
RECURSIVE FormatInitLabels(_, _)
FormatInitLabels(labels, i) ==
    IF i >= Len(labels) THEN <<>>
    ELSE labels[i].label \o EqualsSign \o DebugStr(labels[i].value) \o <<Comma>>
            \o FormatInitLabels(labels, i + 1)

\* Metric::text_format for MetricValue::Counter(val).
TextFormat(c) ==
    HelpPrefix \o c.name \o <<Space>> \o c.help \o <<Newline>>
        \o TypePrefix \o c.name \o <<Space>> \o CounterKind \o <<Newline>>
        \o c.name
        \o (IF c.labels # <<>>
            THEN LET last == c.labels[Len(c.labels)]
                 IN  OpenBrace \o FormatInitLabels(c.labels, 1)
                        \o last.label \o EqualsSign \o DebugStr(last.value)
                        \o CloseBrace
            ELSE <<>>)
        \o <<Space>> \o Decimal(c.incs) \o <<Newline>>

InitCounterText ==
    /\ tArg \in [via : {"export", "text_format"}, name : CounterNames,
                 help : CounterHelps, labels : TextLabelLists, incs : {0}]
    /\ tRet = NotCalled

\* counter.inc()
CounterInc ==
    /\ tRet = NotCalled
    /\ tArg.incs < MaxIncs
    /\ tArg' = [tArg EXCEPT !.incs = @ + 1]
    /\ UNCHANGED <<tRet, metricVars, concVars, histVars, localVars, regVars, timerVars, f64Vars>>

\* Exportable::export(&counter, &mut buf)
CounterExport ==
    /\ tArg.via = "export"
    /\ tRet = NotCalled
    /\ tRet' = [kind |-> "ok", text |-> LabeledExport(tArg)]
    /\ UNCHANGED <<tArg, metricVars, concVars, histVars, localVars, regVars, timerVars, f64Vars>>

\* metric.text_format(&mut buf) for the counter as the registry collected it.
CounterTextFormat ==
    /\ tArg.via = "text_format"
    /\ tRet = NotCalled
    /\ tRet' = [kind |-> "ok", text |-> TextFormat(tArg)]
    /\ UNCHANGED <<tArg, metricVars, concVars, histVars, localVars, regVars, timerVars, f64Vars>>

NextCounterText ==
    \/ CounterInc
    \/ CounterExport
    \/ CounterTextFormat

InitX == InitCounterText /\ IdleMetric /\ IdleConc /\ IdleHist /\ IdleLocal /\ IdleReg /\ IdleTimer
        /\ IdleF64

SpecCounterText == InitX /\ [][NextCounterText]_vars

(***************************************************************************)
(* The text rendering of a histogram: Collectable::encode_text of          *)
(* &Histogram<AtomicU64>.                                                  *)
(***************************************************************************)

\* " histogram", "_sum", "_count", "_bucket" and "le="
HistogramKind == <<32, 104, 105, 115, 116, 111, 103, 114, 97, 109>>

SumSuffix == <<95, 115, 117, 109>>

CountSuffix == <<95, 99, 111, 117, 110, 116>>

BucketSuffix == <<95, 98, 117, 99, 107, 101, 116>>

LeEquals == <<108, 101, 61>>

\* Bucket lists of a histogram of u64, as the bounds themselves.
TextBuckets == {<<2>>, <<2, 10>>}

\* A histogram "h" with help "d": its labels, bounds, bucket counters, count and
\* sum.
TextHistograms ==
    UNION {[name : {<<104>>}, help : {<<100>>}, labels : TextLabelLists,
            buckets : {b}, values : [1..Len(b) -> {0, 1}], count : {0, 12},
            sum : {0, 7}] : b \in TextBuckets}

\* <AtomicU64 as AtomicNum>::format(int, f, quotes)
FormatU64(int, quotes) ==
    IF quotes THEN <<Quote>> \o Decimal(int) \o <<Quote>> ELSE Decimal(int)

\* The closure `row`: the name with a suffix, then the labels in braces and a
\* space, or a space alone.
Row(h, suffix) ==
    h.name \o suffix
        \o (IF h.labels # <<>>
            THEN LET last == h.labels[Len(h.labels)]
                 IN  OpenBrace \o FormatInitLabels(h.labels, 1)
                        \o last.label \o EqualsSign \o DebugStr(last.value)
                        \o CloseBrace \o <<Space>>
            ELSE <<Space>>)

\* The loop over all the labels in a bucket line: label=value and a comma.
RECURSIVE FormatAllLabels(_, _)
FormatAllLabels(labels, i) ==
    IF i > Len(labels) THEN <<>>
    ELSE labels[i].label \o EqualsSign \o DebugStr(labels[i].value) \o <<Comma>>
            \o FormatAllLabels(labels, i + 1)

\* One pass of the loop over the buckets.
BucketLine(h, i) ==
    h.name \o BucketSuffix
        \o (IF h.labels # <<>>
            THEN OpenBrace \o FormatAllLabels(h.labels, 1)
                    \o LeEquals \o FormatU64(h.buckets[i], TRUE)
                    \o CloseBrace \o <<Space>>
            ELSE <<Space>>)
        \o FormatU64(h.values[i], FALSE) \o <<Newline>>

RECURSIVE BucketLines(_, _)
BucketLines(h, i) ==
    IF i > Len(h.buckets) THEN <<>> ELSE BucketLine(h, i) \o BucketLines(h, i + 1)

\* encode_text
EncodeText(h) ==
    HelpPrefix \o h.name \o <<Space>> \o h.help \o <<Newline>>
        \o TypePrefix \o h.name \o HistogramKind \o <<Newline>>
        \o Row(h, SumSuffix) \o FormatU64(h.sum, FALSE) \o <<Newline>>
        \o Row(h, CountSuffix) \o FormatU64(h.count, FALSE) \o <<Newline>>
        \o BucketLines(h, 1)

InitHistogramText ==
    /\ tArg \in TextHistograms
    /\ tRet = NotCalled

\* histogram.encode_text(&mut buf)
HistogramEncodeText ==
    /\ tRet = NotCalled
    /\ tRet' = [kind |-> "ok", text |-> EncodeText(tArg)]
    /\ UNCHANGED <<tArg, metricVars, concVars, histVars, localVars, regVars, timerVars, f64Vars>>

NextHistogramText == HistogramEncodeText

InitY == InitHistogramText /\ IdleMetric /\ IdleConc /\ IdleHist /\ IdleLocal /\ IdleReg /\ IdleTimer
        /\ IdleF64

SpecHistogramText == InitY /\ [][NextHistogramText]_vars

(***************************************************************************)
(* Timers on a Gauge or on a Histogram.                                    *)
(***************************************************************************)

MaxSecs == 2

TimerIds == {"k1", "k2"}

NoTimer == [state |-> "none", made |-> "none", how |-> "none", secs |-> 0]

\* The bucket lists of the histograms the timers are put on.
TimerBuckets(kind) ==
    {<<NumFromU64(kind, 1)>>, <<NumFromU64(kind, 0), NumFromU64(kind, 1)>>}

\* Gauge::new and HistogramBuilder::build: the targets before any timer.
TimerTargets ==
    [type : {"gauge"}, kind : Kinds, cell : {ZeroWord}, last : {-1}]
        \cup UNION {[type : {"histogram"}, kind : {k}, buckets : {b},
                     values : {[i \in 1..Len(b) |-> ZeroWord]}, count : {ZeroWord},
                     sum : {ZeroWord}, last : {-1}]
                    : <<k, b>> \in UNION {{k} \X TimerBuckets(k) : k \in {"uint", "float"}}}

\* An observe on a Gauge that adds the seconds to the value.
GaugeObserveAdds(kind, held, val) == AtomicIncBy(kind, held, NumFromU64(kind, val))

\* <Gauge as Observable>::observe(val): self.set(Num::from_u64(val))
GaugeObserve(kind, held, val) == AtomicSet(kind, held, NumFromU64(kind, val))

\* <Histogram as Observable>::observe(val): self.observe(Num::from_u64(val)),
\* HistogramCore::observe run to its end.
HistogramObserve(h, val) ==
    LET num == NumFromU64(h.kind, val)
        idx == Position(h.kind, h.buckets, num)
    IN  [h EXCEPT !.values = IF idx = 0 THEN @
                             ELSE [@ EXCEPT ![idx] = AtomicInc(h.kind, @)],
                  !.count = AtomicInc("uint", @),
                  !.sum = AtomicIncBy(h.kind, @, num)]

\* Observable::observe on the target of the timers.
TargetObserve(target, val) ==
    IF target.type = "gauge"
    THEN [target EXCEPT !.cell = GaugeObserve(target.kind, @, val), !.last = val]
    ELSE [HistogramObserve(target, val) EXCEPT !.last = val]

InitTimer ==
    /\ tmTarget \in TimerTargets
    /\ timers = [k \in TimerIds |-> NoTimer]
    /\ tmCalls = [k \in TimerIds |-> 0]

\* Timer::new(&target)
TimerNew(k) ==
    /\ timers[k].state = "none"
    /\ timers' = [timers EXCEPT ![k] = [NoTimer EXCEPT !.state = "running", !.made = "new"]]
    /\ UNCHANGED <<tmTarget, tmCalls>>
    /\ UNCHANGED <<metricVars, concVars, histVars, localVars, regVars, textVars, f64Vars>>

\* timer.clone(): a second handle on the same target with the same start time.
TimerClone(k, j) ==
    /\ timers[k].state = "none"
    /\ timers[j].state = "running"
    /\ timers' = [timers EXCEPT ![k] = [NoTimer EXCEPT !.state = "running", !.made = "clone"]]
    /\ UNCHANGED <<tmTarget, tmCalls>>
    /\ UNCHANGED <<metricVars, concVars, histVars, localVars, regVars, textVars, f64Vars>>

\* Drop::drop: self.target.observe(self.start_time.elapsed().as_secs())
TimerDrop(k, how) ==
    /\ \E secs \in 0..MaxSecs :
         /\ tmTarget' = TargetObserve(tmTarget, secs)
         /\ timers' = [timers EXCEPT ![k] = [@ EXCEPT !.state = "released", !.how = how,
                                                      !.secs = secs]]
    /\ tmCalls' = [tmCalls EXCEPT ![k] = @ + 1]
    /\ UNCHANGED <<metricVars, concVars, histVars, localVars, regVars, textVars, f64Vars>>

\* timer.observe(): the body is empty and `self` is dropped at its end.
TimerObserve(k) ==
    /\ timers[k].state = "running"
    /\ TimerDrop(k, "observe")

\* The handle goes out of scope.
TimerScopeEnd(k) ==
    /\ timers[k].state = "running"
    /\ TimerDrop(k, "scope")

NextTimer ==
    \/ \E k \in TimerIds : TimerNew(k)
    \/ \E k, j \in TimerIds : TimerClone(k, j)
    \/ \E k \in TimerIds : TimerObserve(k)
    \/ \E k \in TimerIds : TimerScopeEnd(k)

InitM == InitTimer /\ IdleMetric /\ IdleConc /\ IdleHist /\ IdleLocal /\ IdleReg /\ IdleText
        /\ IdleF64

SpecTimer == InitM /\ [][NextTimer]_vars

(***************************************************************************)
(* One AtomicF64 under concurrent fetch_add, fetch_sub and store.          *)
(***************************************************************************)

MaxF64Calls == 1

\* The value the cell starts with, and the calls made on it: fetch_add(0.5),
\* fetch_sub(0.5), store(0.5) and store(1.0).
F64Starts == {Fin(2)}

F64CallReps ==
    [op : {"add", "sub"}, val : {Fin(1)}] \cup [op : {"store"}, val : {Fin(1), Fin(2)}]

NoF64Call == [op |-> "none", val |-> Fin(0)]

NoF64Ret == [op |-> "none", val |-> Fin(0), old |-> ZeroWord, ret |-> Fin(0), at |-> 0]

NoF64Fail == [failed |-> FALSE, at |-> 0, now |-> 0]

\* `let new = f64::from_bits(current) + val` of fetch_add, `- val` of fetch_sub;
\* store writes `val`.
F64New(call, current) ==
    CASE call.op = "add" -> FAdd(F64FromBits(current), call.val)
      [] call.op = "sub" -> FSub(F64FromBits(current), call.val)
      [] call.op = "store" -> call.val

\* A fetch_add / fetch_sub that returns what the cell held before.
BreakPrevious(new, current) == F64FromBits(current)

\* `break new`: what fetch_add and fetch_sub return (store returns nothing, shown
\* as the value stored).
BreakNew(new, current) == new

\* A later pass of the loop that keeps the bits it loaded before.
LoopLoadStale(held, current) == current

\* `let current = self.0.load(order)` at the top of a later pass of the loop.
LoopLoad(held, current) == AtomicLoad(held)

\* A loop that tries the compare_and_swap again without loading.
CasFailedSpins == "cas"

\* Where the loop goes when the compare_and_swap did not return `current`: round
\* to the load.
CasFailedNext == "load"

\* A compare_and_swap of the loop that writes whatever the cell holds.
LoopCasBlind(held, current, new) == new

\* `self.0.compare_and_swap(current, new, order)` in the loops of AtomicF64.
LoopCas(held, current, new) == CompareAndSwap(held, current, new)

\* AtomicF64::from_bits
InitF64 ==
    /\ fInit \in {F64ToBits(x) : x \in F64Starts}
    /\ fCell = fInit
    /\ fpc = [t \in Threads |-> "idle"]
    /\ fop = [t \in Threads |-> NoF64Call]
    /\ fcur = [t \in Threads |-> ZeroWord]
    /\ fnew = [t \in Threads |-> Fin(0)]
    /\ fCalls = [t \in Threads |-> 0]
    /\ fUpdates = 0
    /\ fLoadAt = [t \in Threads |-> 0]
    /\ fLast = [t \in Threads |-> NoF64Ret]
    /\ fRetried = [t \in Threads |-> NoF64Fail]

\* fetch_add, fetch_sub or store is entered: the load of the first pass and the
\* new value worked out from it.
A64Enter(t) ==
    /\ fpc[t] = "idle"
    /\ fCalls[t] < MaxF64Calls
    /\ \E call \in F64CallReps :
         /\ fop' = [fop EXCEPT ![t] = call]
         /\ fnew' = [fnew EXCEPT ![t] = F64New(call, AtomicLoad(fCell))]
    /\ fcur' = [fcur EXCEPT ![t] = AtomicLoad(fCell)]
    /\ fLoadAt' = [fLoadAt EXCEPT ![t] = fUpdates]
    /\ fpc' = [fpc EXCEPT ![t] = "cas"]
    /\ UNCHANGED <<fInit, fCell, fCalls, fUpdates, fLast, fRetried>>
    /\ UNCHANGED <<metricVars, concVars, histVars, localVars, regVars, textVars,
                   timerVars>>

\* The load of a later pass, after a compare_and_swap that failed, and the new
\* value worked out from it.
A64Reload(t) ==
    /\ fpc[t] = "load"
    /\ fcur' = [fcur EXCEPT ![t] = LoopLoad(fCell, fcur[t])]
    /\ fnew' = [fnew EXCEPT ![t] = F64New(fop[t], fcur'[t])]
    /\ fLoadAt' = [fLoadAt EXCEPT ![t] = fUpdates]
    /\ fpc' = [fpc EXCEPT ![t] = "cas"]
    /\ UNCHANGED <<fInit, fCell, fop, fCalls, fUpdates, fLast, fRetried>>
    /\ UNCHANGED <<metricVars, concVars, histVars, localVars, regVars, textVars,
                   timerVars>>

\* The compare_and_swap of a pass: when it returns `current` the call returns
\* (`break new`, `break`), otherwise the loop goes round.
A64Cas(t) ==
    /\ fpc[t] = "cas"
    /\ fCell' = LoopCas(fCell, fcur[t], F64ToBits(fnew[t]))
    /\ IF CasSucceeds(fCell, fcur[t])
       THEN /\ fpc' = [fpc EXCEPT ![t] = "idle"]
            /\ fCalls' = [fCalls EXCEPT ![t] = @ + 1]
            /\ fUpdates' = fUpdates + 1
            /\ fLast' = [fLast EXCEPT ![t] =
                           [op |-> fop[t].op, val |-> fop[t].val, old |-> fcur[t],
                            ret |-> BreakNew(fnew[t], fcur[t]), at |-> fUpdates + 1]]
            /\ fop' = [fop EXCEPT ![t] = NoF64Call]
            /\ fcur' = [fcur EXCEPT ![t] = ZeroWord]
            /\ fnew' = [fnew EXCEPT ![t] = Fin(0)]
            /\ UNCHANGED fRetried
       ELSE /\ fpc' = [fpc EXCEPT ![t] = CasFailedNext]
            /\ fRetried' = [fRetried EXCEPT ![t] =
                              [failed |-> TRUE, at |-> fLoadAt[t], now |-> fUpdates]]
            /\ UNCHANGED <<fCalls, fUpdates, fLast, fop, fcur, fnew>>
    /\ UNCHANGED <<fInit, fLoadAt>>
    /\ UNCHANGED <<metricVars, concVars, histVars, localVars, regVars, textVars,
                   timerVars>>

NextF64 ==
    \/ \E t \in Threads : A64Enter(t)
    \/ \E t \in Threads : A64Reload(t)
    \/ \E t \in Threads : A64Cas(t)

InitF == InitF64 /\ IdleMetric /\ IdleConc /\ IdleHist /\ IdleLocal /\ IdleReg /\ IdleText
        /\ IdleTimer

SpecF64 == InitF /\ [][NextF64]_vars

\* Every thread that is inside a call keeps being scheduled: a load or a
\* compare_and_swap that stays possible is eventually taken.
SpecF64Fair ==
    /\ InitF
    /\ [][NextF64]_vars
    /\ \A t \in Threads : WF_vars(A64Reload(t)) /\ WF_vars(A64Cas(t))

(***************************************************************************)
(* Properties of the registry builder.                                     *)
(***************************************************************************)

\* C20: build fails with MissingComponent whenever no collector was supplied:
\* when nothing was ever registered (inputs is None) and when the list is empty
\* after register_all of an empty list; no Registry is built then.
C20_BuildWithoutCollectorsFails ==
    /\ rLog = <<>> => rInputs.list = <<>>
    /\ (rResult # Unbuilt /\ (~rInputs.some \/ rInputs.list = <<>>))
          => rResult = BuildFailed("MissingComponent", <<>>)

\* build has failed on a builder that was given an empty list by register_all
\* and nothing else.
C20_Witness ==
    /\ rInputs.some
    /\ rInputs.list = <<>>
    /\ rLog = <<>>
    /\ rResult.kind = "MissingComponent"

\* The inputs at positions i < j of the builder's list are the same collector
\* for build: equal names and equal label lists.
Twice(i, j) ==
    /\ i < j
    /\ rInputs.list[i].name = rInputs.list[j].name
    /\ rInputs.list[i].labels = rInputs.list[j].labels

Positions == 1..Len(rInputs.list)

\* C21: build fails with DuplicatedCollector, naming a metric that stands twice
\* in the list, whenever two collectors of the list have the same name and the
\* same labels, adjacent or not.
C21_DuplicateRejected ==
    (rResult # Unbuilt /\ \E i, j \in Positions : Twice(i, j))
        => /\ rResult.kind = "DuplicatedCollector"
           /\ rResult.inputs = <<>>
           /\ \E i, j \in Positions : Twice(i, j) /\ rResult.name = rInputs.list[j].name

\* build has failed on a list whose first and third collectors are the same,
\* with a different one between them.
C21_Witness ==
    /\ Len(rInputs.list) = 3
    /\ Twice(1, 3)
    /\ ~Twice(1, 2)
    /\ rResult.kind = "DuplicatedCollector"
    /\ rResult.name = rInputs.list[3].name

\* C22: two collectors are duplicates only if the name and the whole ordered
\* label list are equal: a list in which no two collectors agree in both is
\* accepted, also when names are equal and the label lists differ in content or
\* only in order.
C22_DifferentLabelsAccepted ==
    (rResult # Unbuilt /\ rInputs.list # <<>> /\ ~\E i, j \in Positions : Twice(i, j))
        => /\ rResult.kind = "ok"
           /\ \A i \in Positions :
                 \E k \in 1..Len(rResult.inputs) : rResult.inputs[k] = rInputs.list[i]

\* A Registry was built from three collectors of one name: one without labels
\* and two whose label lists differ only in order.
C22_Witness ==
    /\ rResult.kind = "ok"
    /\ Len(rInputs.list) = 3
    /\ \A i \in Positions : rInputs.list[i].name = NameA
    /\ \E i, j \in Positions :
          /\ rInputs.list[i].labels = <<LabelX, LabelY>>
          /\ rInputs.list[j].labels = <<LabelY, LabelX>>

\* How often collector c stands in the list.
Occurrences(c, list) == Cardinality({i \in 1..Len(list) : list[i] = c})

\* C23: a built Registry holds exactly the collectors of the builder's list,
\* each once, in ascending lexicographic order of their names, whatever the
\* order of registration.
C23_BuiltSortedByName ==
    rResult.kind = "ok"
        => /\ Len(rResult.inputs) = Len(rInputs.list)
           /\ \A c \in Collectors :
                 Occurrences(c, rResult.inputs) = Occurrences(c, rInputs.list)
           /\ \A i, j \in 1..Len(rResult.inputs) :
                 i < j => ~NameLess(rResult.inputs[j].name, rResult.inputs[i].name)

\* A Registry built from collectors registered in descending order of name:
\* "b", "ab", "a" come out as "a", "ab", "b".
C23_Witness ==
    /\ rResult.kind = "ok"
    /\ Len(rInputs.list) = 3
    /\ rInputs.list[1].name = NameB
    /\ rInputs.list[2].name = NameAB
    /\ rInputs.list[3].name = NameA
    /\ rResult.inputs[1].name = NameA
    /\ rResult.inputs[2].name = NameAB
    /\ rResult.inputs[3].name = NameB

\* The position of the collector c in the built Registry.
BuiltAt(c) == CHOOSE k \in 1..Len(rResult.inputs) : rResult.inputs[k] = c

\* C24 as stated: collectors of equal name keep their order of registration in
\* the built Registry.
C24_SortStable ==
    rResult.kind = "ok"
        => \A i, j \in Positions :
              (i < j /\ rInputs.list[i].name = rInputs.list[j].name)
                  => BuiltAt(rInputs.list[i]) < BuiltAt(rInputs.list[j])

\* C25 as stated: a second Registry built from the same collectors given in
\* another order holds them in the same order as the first.
C25_OrderIndependentOfRegistration ==
    rOther.result.kind = "ok" => rOther.result.inputs = rResult.inputs

\* The descriptors of what was collected, without the values.
Described(metrics) ==
    [i \in 1..Len(metrics) |-> [name |-> metrics[i].name, labels |-> metrics[i].labels]]

\* C26: collect returns one metric per collector of the Registry, in the
\* Registry's order, each with the collector's value at the time of the call; it
\* leaves the Registry as it is, so two collects differ in the values at most.
C26_CollectOnePerCollector ==
    [][rCollects' # rCollects
          => /\ rResult' = rResult
             /\ rValues' = rValues
             /\ Described(rCollected') = rResult.inputs
             /\ \A i \in 1..Len(rResult.inputs) :
                   rCollected'[i].value = Decimal(rValues[rResult.inputs[i]])
             /\ rCollects > 0 => Described(rCollected') = Described(rCollected)]_vars

\* The second collect on a Registry of three collectors: the first collect saw
\* values that have changed since, and the collectors were registered in another
\* order than the Registry holds them in.
C26_Witness ==
    /\ rCollects = MaxCollect
    /\ Len(rCollected) = 3
    /\ rResult.inputs # rInputs.list
    /\ rCollected[1].value # rCollected[2].value
    /\ \E i \in 1..3 : rCollected[i].value # Decimal(rValues[rResult.inputs[i]])
    /\ \E i \in 1..3 : rCollected[i].value = Decimal(12)

(***************************************************************************)
(* Properties of Label::new.                                               *)
(***************************************************************************)

\* The name matches [a-zA-Z_][a-zA-Z0-9_]*.
MatchesLabelPattern(name) ==
    /\ name # <<>>
    /\ IsAsciiAlphabetic(name[1]) \/ name[1] = Underscore
    /\ \A i \in 2..Len(name) : IsAsciiAlphanumeric(name[i]) \/ name[i] = Underscore

\* C27 as stated: Label::new rejects with InvalidLabelName every name that is
\* empty, is "le" or does not match [a-zA-Z_][a-zA-Z0-9_]*, so a constructed
\* Label has a name that matches.
C27_LabelNewRejectsBadNames ==
    (tRet # NotCalled /\ (tArg = <<>> \/ tArg = Le \/ ~MatchesLabelPattern(tArg)))
        => tRet.kind = "InvalidLabelName"

\* The name starts with "__".
Reserved(name) == Len(name) >= 2 /\ name[1] = Underscore /\ name[2] = Underscore

\* C28 as stated: Label::new accepts every name that matches
\* [a-zA-Z_][a-zA-Z0-9_]*, is not "le" and does not start with "__".
C28_LabelNewAcceptsGoodNames ==
    (tRet # NotCalled /\ MatchesLabelPattern(tArg) /\ tArg # Le /\ ~Reserved(tArg))
        => tRet.kind = "ok"

(***************************************************************************)
(* Properties of the help text.                                            *)
(***************************************************************************)

\* The text with each backslash doubled and each newline written as a
\* backslash and an 'n', in one pass.
RECURSIVE EscapedOnce(_)
EscapedOnce(text) ==
    IF text = <<>> THEN <<>>
    ELSE (CASE Head(text) = Backslash -> <<Backslash, Backslash>>
            [] Head(text) = Newline -> <<Backslash, LetterN>>
            [] OTHER -> <<Head(text)>>) \o EscapedOnce(Tail(text))

\* Reading an escaped text back: a backslash and the character after it stand
\* for a backslash or a newline.
RECURSIVE Unescaped(_)
Unescaped(text) ==
    IF text = <<>> THEN <<>>
    ELSE IF Head(text) = Backslash /\ Len(text) >= 2
         THEN <<IF text[2] = LetterN THEN Newline ELSE text[2]>>
                  \o Unescaped(Tail(Tail(text)))
         ELSE <<Head(text)>> \o Unescaped(Tail(text))

\* C29 as stated: the help a constructed metric holds is the caller's text
\* escaped once: it has no raw newline and unescaping it gives the caller's text.
C29_HelpEscapedOnce ==
    tRet.kind = "ok"
        => /\ tRet.help = EscapedOnce(tArg.help)
           /\ \A i \in 1..Len(tRet.help) : tRet.help[i] # Newline
           /\ Unescaped(tRet.help) = tArg.help

\* The same of Descriptor::new alone.
DescriptorHelpEscapedOnce == tArg.ctor = "Descriptor" => C29_HelpEscapedOnce

(***************************************************************************)
(* Properties of the text rendering of a counter.                          *)
(***************************************************************************)

\* The labels from position i on as name="value", joined by commas.
RECURSIVE JoinedLabels(_, _)
JoinedLabels(labels, i) ==
    IF i > Len(labels) THEN <<>>
    ELSE (IF i > 1 THEN <<Comma>> ELSE <<>>)
            \o labels[i].label \o EqualsSign \o <<Quote>> \o labels[i].value \o <<Quote>>
            \o JoinedLabels(labels, i + 1)

\* The three lines of a counter in the exposition format.
ExpectedCounterText(c) ==
    HelpPrefix \o c.name \o <<Space>> \o c.help \o <<Newline>>
        \o TypePrefix \o c.name \o <<Space>> \o CounterKind \o <<Newline>>
        \o c.name
        \o (IF c.labels = <<>> THEN <<>>
            ELSE OpenBrace \o JoinedLabels(c.labels, 1) \o CloseBrace)
        \o <<Space>> \o Decimal(c.incs) \o <<Newline>>

\* C30 as stated: a counter renders as `# HELP <name> <help>`, `# TYPE <name>
\* counter` and one line of the name, the label block (nothing for zero labels),
\* a space and the value.
C30_CounterTextExact ==
    tRet.kind = "ok" => tRet.text = ExpectedCounterText(tArg)

\* The same of Metric::text_format alone.
TextFormatExact == tArg.via = "text_format" => C30_CounterTextExact

(***************************************************************************)
(* Further properties of the histogram and of the registry builder.        *)
(***************************************************************************)

\* The number bucket counter i stands at.
BucketCount(i) ==
    IF hKind = "float" THEN Halves(F64FromBits(values[i])) \div 2 ELSE values[i][1]

\* The bucket counters of buckets i.. added up.
RECURSIVE BucketTotal(_)
BucketTotal(i) == IF i > Len(buckets) THEN 0 ELSE BucketCount(i) + BucketTotal(i + 1)

\* The observed values that some bound covers.
Covered == {v \in ObsReps(hKind) : \E i \in 1..Len(buckets) : Covers(i, v)}

\* C36: when K observe calls made concurrently on one histogram have all
\* returned, whatever their interleaving, count is K, sum is the sum of the K
\* observed values, and the bucket counters add up to the number of observed
\* values that are <= some bound.
C36_ConcurrentObserveTotals ==
    HistQuiet
        => /\ count = EncInt(started)
           /\ sum = RefBits(hKind, IF hKind = "float" THEN Fin(ObservedSum) ELSE ObservedSum)
           /\ BucketTotal(1) = Observed(Covered)

\* All the calls have returned; one of the observed values is above every bound
\* and the others are covered.
C36_Witness ==
    /\ HistQuiet
    /\ started = MaxObs
    /\ count = EncInt(MaxObs)
    /\ Observed(Covered) = MaxObs - 1
    /\ BucketTotal(1) = MaxObs - 1

\* The core of a freshly constructed histogram.
ZeroCore ==
    <<[i \in 1..Len(buckets) |-> AtomicNew(hKind)], ZeroWord, AtomicNew(hKind)>>

\* C37 as stated: when one clear and one observe(v) have run concurrently and
\* both have returned, the histogram is all zero or is a fresh histogram after
\* observe(v).
C37_ClearAtomicWithObserve ==
    (CoreQuiet /\ clears = 1 /\ started = 1 /\ lastOB = NoObserveBucket)
        => \/ core = ZeroCore
           \/ \E v \in ObsReps(hKind) :
                 core = FreshAfter(ObsReps(hKind),
                                   [u \in ObsReps(hKind) |-> IF u = v THEN 1 ELSE 0])

\* C39 as stated: after a successful build every collector passed to register
\* or register_all is in the Registry.
C39_NoCollectorDropped ==
    rResult.kind = "ok"
        => \A i \in 1..Len(rLog) : rLog[i] \in Held(rResult.inputs)

\* C38 as stated: an IntCounter that starts at zero and is changed by inc,
\* inc_by and try_inc_by only never holds a negative value.
C38_IntCounterNeverNegative == ~IsNegI64(value)

(***************************************************************************)
(* Properties of the text rendering of a histogram.                        *)
(***************************************************************************)

\* A line of the histogram: the name with a suffix, the labels and `extra` in
\* braces (no braces when there is neither), a space, the value.
ExpectedLine(h, suffix, extra, val) ==
    h.name \o suffix
        \o (IF h.labels = <<>> /\ extra = <<>> THEN <<>>
            ELSE OpenBrace \o JoinedLabels(h.labels, 1)
                    \o (IF h.labels # <<>> /\ extra # <<>> THEN <<Comma>> ELSE <<>>)
                    \o extra \o CloseBrace)
        \o <<Space>> \o Decimal(val) \o <<Newline>>

RECURSIVE ExpectedBucketLines(_, _)
ExpectedBucketLines(h, i) ==
    IF i > Len(h.buckets) THEN <<>>
    ELSE ExpectedLine(h, BucketSuffix,
                      LeEquals \o <<Quote>> \o Decimal(h.buckets[i]) \o <<Quote>>,
                      h.values[i])
            \o ExpectedBucketLines(h, i + 1)

ExpectedHistogramText(h) ==
    HelpPrefix \o h.name \o <<Space>> \o h.help \o <<Newline>>
        \o TypePrefix \o h.name \o HistogramKind \o <<Newline>>
        \o ExpectedLine(h, SumSuffix, <<>>, h.sum)
        \o ExpectedLine(h, CountSuffix, <<>>, h.count)
        \o ExpectedBucketLines(h, 1)

\* C31 as stated: after the HELP and TYPE lines come one _sum line, one _count
\* line and one _bucket line per bucket in list order, each _bucket line with all
\* the labels of the descriptor and an le label holding the bucket's bound, also
\* when the descriptor has no labels.
C31_HistogramTextLines ==
    tRet.kind = "ok" => tRet.text = ExpectedHistogramText(tArg)

\* The same of the histograms that have a label.
LabeledHistogramTextLines == tArg.labels # <<>> => C31_HistogramTextLines

(***************************************************************************)
(* Properties of the timers.                                               *)
(***************************************************************************)

Released == {k \in TimerIds : timers[k].state = "released"}

\* C32: a handle that has been released, by observe() or by leaving its scope,
\* has recorded exactly one observation on its target, and a handle not yet
\* released none; a Histogram's count is the number of released handles; a Gauge
\* holds the whole seconds of the handle released last, whatever it held before.
C32_TimerObservesOnce ==
    /\ \A k \in TimerIds : tmCalls[k] = IF k \in Released THEN 1 ELSE 0
    /\ tmTarget.type = "histogram" => tmTarget.count = EncInt(Cardinality(Released))
    /\ tmTarget.type = "gauge" /\ Released # {} =>
         AtomicGet(tmTarget.kind, tmTarget.cell) = NumFromU64(tmTarget.kind, tmTarget.last)

\* Two handles on a Gauge, one released by observe() and one by leaving its
\* scope, the later one with fewer seconds than the earlier.
C32_Witness ==
    /\ tmTarget.type = "gauge"
    /\ Released = TimerIds
    /\ {timers[k].how : k \in TimerIds} = {"observe", "scope"}
    /\ \E k \in TimerIds : timers[k].secs > tmTarget.last /\ tmTarget.last > 0

(***************************************************************************)
(* Properties of the compare-and-swap loops of AtomicF64.                  *)
(***************************************************************************)

\* C33: a compare_and_swap of fetch_add, fetch_sub or store has failed only when
\* an update of the cell succeeded between the thread's load and that
\* compare_and_swap; so whenever a thread is about to go round the loop, an update
\* has completed since its load.
C33_CasFailsOnlyAfterUpdate ==
    \A t \in Threads :
        /\ fRetried[t].failed => fRetried[t].now > fRetried[t].at
        /\ fpc[t] = "load" => fUpdates > fLoadAt[t]

\* A thread whose compare_and_swap has just failed.
C33_Witness == \E t \in Threads : fRetried[t].failed /\ fpc[t] = "load"

\* C34: with every thread inside a call scheduled again and again, each
\* fetch_add, fetch_sub and store that was entered returns.
C34_EveryCallReturns == \A t \in Threads : (fpc[t] # "idle") ~> (fpc[t] = "idle")

\* Every thread has made its calls and returned, one of them after going round
\* the loop.
C34_Witness ==
    /\ \A t \in Threads : fpc[t] = "idle" /\ fCalls[t] = MaxF64Calls
    /\ \E t \in Threads : fRetried[t].failed

\* Each thread has made exactly one call and returned.
OneCallEach == \A t \in Threads : fpc[t] = "idle" /\ fCalls[t] = 1

\* C35: after store(v) by one thread and fetch_add(d) by another on a cell that
\* held x, the cell holds v or v + d; after store(a) and store(b) it holds a or b.
C35_StoreNeverLost ==
    OneCallEach =>
        \A t, u \in Threads :
            /\ fLast[t].op = "store" /\ fLast[u].op = "add" =>
                 fCell \in {F64ToBits(fLast[t].val),
                            F64ToBits(FAdd(fLast[t].val, fLast[u].val))}
            /\ t # u /\ fLast[t].op = "store" /\ fLast[u].op = "store" =>
                 fCell \in {F64ToBits(fLast[t].val), F64ToBits(fLast[u].val)}

\* store(v) and fetch_add(d) have both returned, one of them after a failed
\* compare_and_swap, v is not what the cell started with, and the cell holds v + d.
C35_Witness ==
    /\ OneCallEach
    /\ \E t \in Threads : fRetried[t].failed
    /\ \E t, u \in Threads :
         /\ fLast[t].op = "store" /\ fLast[u].op = "add"
         /\ F64ToBits(fLast[t].val) # fInit
         /\ fCell = F64ToBits(FAdd(fLast[t].val, fLast[u].val))

\* C40: fetch_add(d) and fetch_sub(d) return old + d and old - d, the value
\* written, and while no other update has followed, a load of the cell gives that
\* same value.
C40_FetchReturnsNewValue ==
    \A t \in Threads :
        /\ fLast[t].op = "add" => fLast[t].ret = FAdd(F64FromBits(fLast[t].old), fLast[t].val)
        /\ fLast[t].op = "sub" => fLast[t].ret = FSub(F64FromBits(fLast[t].old), fLast[t].val)
        /\ fLast[t].op \in {"add", "sub"} /\ fUpdates = fLast[t].at =>
             F64FromBits(AtomicLoad(fCell)) = fLast[t].ret

\* A fetch_sub has returned after another thread's update, nothing has been
\* written since, and what it returned is not what the cell held before.
C40_Witness ==
    \E t \in Threads :
        /\ fLast[t].op = "sub"
        /\ fLast[t].at = 2
        /\ fUpdates = 2
        /\ fLast[t].ret # F64FromBits(fLast[t].old)

====
